---- MODULE Spec2Model ----
(***************************************************************************)
(* Model of the SVG identifier prefixer and composer                       *)
(* (scripts/svg_id_prefixer.py, scripts/svg_grid_compositor.py).           *)
(*                                                                         *)
(* Text is a sequence of one-character strings, so that the regular        *)
(* expressions of the source are matched character by character.           *)
(***************************************************************************)
EXTENDS Integers, Sequences, FiniteSets, TLC

VARIABLES
    op,     \* the operation called last ("none" before any call)
    args,   \* its arguments
    out,    \* what it returned, or the exception it raised
    prev,   \* what the call before it returned
    frags,  \* the elements the documents of the call were written from
    assigned \* the prefix of each iteration of the composing loop (history)

vars == <<op, args, out, prev, frags, assigned>>

------------------------------------------------------------------------------
(* Character classes of Python's re module, over the characters in use.    *)

Lower == {"a","b","c","d","e","f","g","h","i","j","k","l","m",
          "n","o","p","q","r","s","t","u","v","w","x","y","z"}
Upper == {"A","B","C","D","E","F","G","H","I","J","K","L","M",
          "N","O","P","Q","R","S","T","U","V","W","X","Y","Z"}
Digit == {"0","1","2","3","4","5","6","7","8","9"}
\* \w
WordChar == Lower \cup Upper \cup Digit \cup {"_"}
\* \s
Space == {" ", "\n", "\t", "\r"}
\* ["\']
Quote == {"\"", "'"}

\* chars[...] of string.ascii_lowercase
ascii_lowercase ==
    <<"a","b","c","d","e","f","g","h","i","j","k","l","m",
      "n","o","p","q","r","s","t","u","v","w","x","y","z">>

------------------------------------------------------------------------------
(* Matching primitives.                                                    *)

\* the literal lit occurs in s at position i
IsAt(s, i, lit) ==
    /\ i >= 1
    /\ i + Len(lit) - 1 <= Len(s)
    /\ SubSeq(s, i, i + Len(lit) - 1) = lit

\* a greedy run [cls]* from i: the first position at or after i whose
\* character is not in cls (Len(s) + 1 at the end of the text)
RECURSIVE RunIn(_, _, _)
RunIn(s, i, cls) ==
    IF i <= Len(s) /\ s[i] \in cls THEN RunIn(s, i + 1, cls) ELSE i

\* a greedy run [^cls]* from i
RECURSIVE RunNotIn(_, _, _)
RunNotIn(s, i, cls) ==
    IF i <= Len(s) /\ s[i] \notin cls THEN RunNotIn(s, i + 1, cls) ELSE i

\* \b at position i (between s[i-1] and s[i])
WordBoundary(s, i) ==
    LET before == i > 1 /\ i - 1 <= Len(s) /\ s[i - 1] \in WordChar
        after  == i >= 1 /\ i <= Len(s) /\ s[i] \in WordChar
    IN  before # after

\* str.startswith
StartsWith(s, p) == Len(p) <= Len(s) /\ SubSeq(s, 1, Len(p)) = p

\* "sub in s"
Contains(s, sub) == \E i \in 1..Len(s) : IsAt(s, i, sub)

\* the smallest element of a non-empty set of numbers
Min(S) == CHOOSE x \in S : \A y \in S : x <= y

\* F applied to the value of v.  (TLC evaluates a LET definition or an
\* operator argument where it is used; this evaluates v once, before F.)
Bind(v, F(_)) == CHOOSE y \in {F(x) : x \in {v}} : TRUE

NoMatch == [ok |-> FALSE, end |-> 0, rep |-> <<>>, n |-> 0]

------------------------------------------------------------------------------
(* Literals of the patterns.                                               *)

LitIdEq          == <<"i","d","=">>
LitHref          == <<"h","r","e","f">>
LitXlinkHref     == <<"x","l","i","n","k",":","h","r","e","f">>
LitUrlOpen       == <<"u","r","l","(","#">>
LitValuesEq      == <<"v","a","l","u","e","s","=">>
LitBegin         == <<"b","e","g","i","n">>
LitEnd           == <<"e","n","d">>
LitFrom          == <<"f","r","o","m">>
LitTo            == <<"t","o">>
LitBy            == <<"b","y">>
LitGetElementById == <<"g","e","t","E","l","e","m","e","n","t","B","y","I","d","(">>
LitQuerySelector == <<"q","u","e","r","y","S","e","l","e","c","t","o","r","(">>
LitData          == <<"d","a","t","a","-">>

\* (["\'])#?([^"\']+)\1 at position k: the opening quote, the text up to the
\* next quote character (one character at least), and the same quote closing
\* it.  [^"\']+ cannot give back characters: what follows it must be a quote,
\* and the run already ends at the first one.
QuotedId(s, k, hash) ==
    LET b == IF hash THEN k + 2 ELSE k + 1
        j == RunNotIn(s, b, Quote)
    IN  IF /\ k <= Len(s) /\ s[k] \in Quote
           /\ (hash => (k + 1 <= Len(s) /\ s[k + 1] = "#"))
           /\ j > b /\ j <= Len(s) /\ s[j] = s[k]
        THEN [ok |-> TRUE, quote |-> s[k], id |-> SubSeq(s, b, j - 1), end |-> j + 1]
        ELSE [ok |-> FALSE, quote |-> "", id |-> <<>>, end |-> 0]

------------------------------------------------------------------------------
(* Step 1: the identifier table.                                           *)

\* id_pattern = \bid=["\']([^"\']+)["\'] at position i: the two quotes need
\* not be the same character.
IdPatternAt(s, i) ==
    LET j == RunNotIn(s, i + 4, Quote)
    IN  IF /\ WordBoundary(s, i) /\ IsAt(s, i, LitIdEq)
           /\ i + 3 <= Len(s) /\ s[i + 3] \in Quote
           /\ j > i + 4 /\ j <= Len(s)
        THEN [ok |-> TRUE, id |-> SubSeq(s, i + 4, j - 1), end |-> j + 1]
        ELSE [ok |-> FALSE, id |-> <<>>, end |-> 0]

\* id_pattern.findall(s) from position i on: the declared identifiers,
\* leftmost matches first and without overlap; K holds the positions where
\* id_pattern matches
RECURSIVE FindAllFrom(_, _, _)
FindAllFrom(s, K, i) ==
    IF \A k \in K : k < i THEN {}
    ELSE Bind(IdPatternAt(s, Min({k \in K : k >= i})),
              LAMBDA m : {m.id} \cup FindAllFrom(s, K, m.end))

FindAllIds(s) ==
    Bind({k \in 1..Len(s) : IdPatternAt(s, k).ok},
         LAMBDA K : FindAllFrom(s, K, 1))

original_ids(svg_content) == FindAllIds(svg_content)

\* as ids_to_prefix, without the exclusion of the identifiers that carry the
\* prefix already
ids_to_prefix_all(found, prefix) == found

ids_to_prefix(found, prefix) ==
    {id_val \in found : ~StartsWith(id_val, prefix)}

id_map(to_prefix, prefix) ==
    [id_val \in to_prefix |-> prefix \o id_val]

------------------------------------------------------------------------------
(* Steps 2..: the ordered passes.  Every matcher answers, for a position   *)
(* i of the text, whether its pattern matches there, where the match ends, *)
(* the text its replacement function returns and the number of times that  *)
(* function incremented ref_count.                                         *)

Matched(e, r, k) == [ok |-> TRUE, end |-> e, rep |-> r, n |-> k]

\* (xlink:href|href) at position i
HrefAttrAt(s, i) ==
    IF IsAt(s, i, LitXlinkHref) THEN LitXlinkHref
    ELSE IF IsAt(s, i, LitHref) THEN LitHref
    ELSE <<>>

\* Pattern 1: \bid=(["\'])([^"\']+)\1
replace_id_decl(idm, s, i) ==
    LET q == QuotedId(s, i + 3, FALSE)
    IN  IF WordBoundary(s, i) /\ IsAt(s, i, LitIdEq) /\ q.ok
        THEN IF q.id \in DOMAIN idm
             THEN Matched(q.end,
                          LitIdEq \o <<q.quote>> \o idm[q.id] \o <<q.quote>>, 1)
             ELSE Matched(q.end, SubSeq(s, i, q.end - 1), 0)
        ELSE NoMatch

\* as replace_href, for the legacy attribute name only: (xlink:href)=...
replace_href_xlink_only(idm, s, i) ==
    LET attr == IF IsAt(s, i, LitXlinkHref) THEN LitXlinkHref ELSE <<>>
        k    == i + Len(attr)
        q    == QuotedId(s, k + 1, TRUE)
    IN  IF attr # <<>> /\ k <= Len(s) /\ s[k] = "=" /\ q.ok
        THEN IF q.id \in DOMAIN idm
             THEN Matched(q.end,
                          attr \o <<"=", q.quote, "#">> \o idm[q.id] \o <<q.quote>>, 1)
             ELSE Matched(q.end, SubSeq(s, i, q.end - 1), 0)
        ELSE NoMatch

\* Pattern 2: (xlink:href|href)=(["\'])#([^"\']+)\2
replace_href(idm, s, i) ==
    LET attr == HrefAttrAt(s, i)
        k    == i + Len(attr)
        q    == QuotedId(s, k + 1, TRUE)
    IN  IF attr # <<>> /\ k <= Len(s) /\ s[k] = "=" /\ q.ok
        THEN IF q.id \in DOMAIN idm
             THEN Matched(q.end,
                          attr \o <<"=", q.quote, "#">> \o idm[q.id] \o <<q.quote>>, 1)
             ELSE Matched(q.end, SubSeq(s, i, q.end - 1), 0)
        ELSE NoMatch

\* Pattern 3: (xlink:href|href)=(["\'])url\(#([^)]+)\)\2
replace_href_url(idm, s, i) ==
    LET attr == HrefAttrAt(s, i)
        k    == i + Len(attr)
        j    == RunNotIn(s, k + 7, {")"})
        id_val == SubSeq(s, k + 7, j - 1)
    IN  IF /\ attr # <<>> /\ k + 1 <= Len(s) /\ s[k] = "=" /\ s[k + 1] \in Quote
           /\ IsAt(s, k + 2, LitUrlOpen)
           /\ j > k + 7 /\ j + 1 <= Len(s) /\ s[j + 1] = s[k + 1]
        THEN IF id_val \in DOMAIN idm
             THEN Matched(j + 2,
                          attr \o <<"=", s[k + 1]>> \o LitUrlOpen \o idm[id_val]
                               \o <<")", s[k + 1]>>, 1)
             ELSE Matched(j + 2, SubSeq(s, i, j + 1), 0)
        ELSE NoMatch

\* Pattern 4: url\(#([^)]+)\)
replace_url_ref(idm, s, i) ==
    LET j == RunNotIn(s, i + 5, {")"})
        id_val == SubSeq(s, i + 5, j - 1)
    IN  IF IsAt(s, i, LitUrlOpen) /\ j > i + 5 /\ j <= Len(s)
        THEN IF id_val \in DOMAIN idm
             THEN Matched(j + 1, LitUrlOpen \o idm[id_val] \o <<")">>, 1)
             ELSE Matched(j + 1, SubSeq(s, i, j), 0)
        ELSE NoMatch

\* re.sub(r'#([^\s;"\'\)]+)', replace_single_ref, values_content) from i
RECURSIVE replace_single_ref(_, _, _)
replace_single_ref(idm, c, i) ==
    IF i > Len(c) THEN [text |-> <<>>, n |-> 0]
    ELSE LET j == RunNotIn(c, i + 1, Space \cup Quote \cup {";", ")"})
             id_val == SubSeq(c, i + 1, j - 1)
         IN  IF c[i] = "#" /\ j > i + 1
             THEN LET r == replace_single_ref(idm, c, j)
                  IN  IF id_val \in DOMAIN idm
                      THEN [text |-> <<"#">> \o idm[id_val] \o r.text, n |-> r.n + 1]
                      ELSE [text |-> SubSeq(c, i, j - 1) \o r.text, n |-> r.n]
             ELSE LET r == replace_single_ref(idm, c, i + 1)
                  IN  [text |-> <<c[i]>> \o r.text, n |-> r.n]

\* Pattern 5: values=(["\'])([^"\']*)\1
replace_values_refs(idm, s, i) ==
    LET k == i + Len(LitValuesEq)
        j == RunNotIn(s, k + 1, Quote)
        new_values == replace_single_ref(idm, SubSeq(s, k + 1, j - 1), 1)
    IN  IF /\ IsAt(s, i, LitValuesEq) /\ k <= Len(s) /\ s[k] \in Quote
           /\ j <= Len(s) /\ s[j] = s[k]
        THEN Matched(j + 1,
                     LitValuesEq \o <<s[k]>> \o new_values.text \o <<s[k]>>,
                     new_values.n)
        ELSE NoMatch

\* re.sub(r"([a-zA-Z_][a-zA-Z0-9_-]*)\.(\w+)", replace_timing_id, timing_content)
\* from i
RECURSIVE replace_timing_id(_, _, _)
replace_timing_id(idm, c, i) ==
    IF i > Len(c) THEN [text |-> <<>>, n |-> 0]
    ELSE LET j == RunIn(c, i + 1, Lower \cup Upper \cup Digit \cup {"_", "-"})
             e == RunIn(c, j + 1, WordChar)
             id_val == SubSeq(c, i, j - 1)
         IN  IF /\ c[i] \in Lower \cup Upper \cup {"_"}
                /\ j <= Len(c) /\ c[j] = "." /\ e > j + 1
             THEN LET r == replace_timing_id(idm, c, e)
                  IN  IF id_val \in DOMAIN idm
                      THEN [text |-> idm[id_val] \o SubSeq(c, j, e - 1) \o r.text,
                            n |-> r.n + 1]
                      ELSE [text |-> SubSeq(c, i, e - 1) \o r.text, n |-> r.n]
             ELSE LET r == replace_timing_id(idm, c, i + 1)
                  IN  [text |-> <<c[i]>> \o r.text, n |-> r.n]

\* Pattern 6: (begin|end)=(["\'])([^"\']+)\2
replace_timing_ref(idm, s, i) ==
    LET attr == IF IsAt(s, i, LitBegin) THEN LitBegin
                ELSE IF IsAt(s, i, LitEnd) THEN LitEnd ELSE <<>>
        k == i + Len(attr)
        q == QuotedId(s, k + 1, FALSE)
        new_timing == replace_timing_id(idm, q.id, 1)
    IN  IF attr # <<>> /\ k <= Len(s) /\ s[k] = "=" /\ q.ok
        THEN Matched(q.end,
                     attr \o <<"=", q.quote>> \o new_timing.text \o <<q.quote>>,
                     new_timing.n)
        ELSE NoMatch

\* Pattern 7: (from|to|by)=(["\'])#([^"\']+)\2
replace_from_to(idm, s, i) ==
    LET attr == IF IsAt(s, i, LitFrom) THEN LitFrom
                ELSE IF IsAt(s, i, LitTo) THEN LitTo
                ELSE IF IsAt(s, i, LitBy) THEN LitBy ELSE <<>>
        k == i + Len(attr)
        q == QuotedId(s, k + 1, TRUE)
    IN  IF attr # <<>> /\ k <= Len(s) /\ s[k] = "=" /\ q.ok
        THEN IF q.id \in DOMAIN idm
             THEN Matched(q.end,
                          attr \o <<"=", q.quote, "#">> \o idm[q.id] \o <<q.quote>>, 1)
             ELSE Matched(q.end, SubSeq(s, i, q.end - 1), 0)
        ELSE NoMatch

\* Pattern 8: getElementById\((["\'])([^"\']+)\1\)
replace_js_getelementbyid(idm, s, i) ==
    LET q == QuotedId(s, i + Len(LitGetElementById), FALSE)
    IN  IF /\ IsAt(s, i, LitGetElementById) /\ q.ok
           /\ q.end <= Len(s) /\ s[q.end] = ")"
        THEN IF q.id \in DOMAIN idm
             THEN Matched(q.end + 1,
                          LitGetElementById \o <<q.quote>> \o idm[q.id]
                               \o <<q.quote, ")">>, 1)
             ELSE Matched(q.end + 1, SubSeq(s, i, q.end), 0)
        ELSE NoMatch

\* Pattern 9: querySelector\((["\'])#([^"\']+)\1\)
replace_js_queryselector(idm, s, i) ==
    LET q == QuotedId(s, i + Len(LitQuerySelector), TRUE)
    IN  IF /\ IsAt(s, i, LitQuerySelector) /\ q.ok
           /\ q.end <= Len(s) /\ s[q.end] = ")"
        THEN IF q.id \in DOMAIN idm
             THEN Matched(q.end + 1,
                          LitQuerySelector \o <<q.quote, "#">> \o idm[q.id]
                               \o <<q.quote, ")">>, 1)
             ELSE Matched(q.end + 1, SubSeq(s, i, q.end), 0)
        ELSE NoMatch

\* Pattern 10: (data-[a-z-]+)=(["\'])#([^"\']+)\2
replace_data_attr(idm, s, i) ==
    LET e == RunIn(s, i + Len(LitData), Lower \cup {"-"})
        q == QuotedId(s, e + 1, TRUE)
    IN  IF /\ IsAt(s, i, LitData) /\ e > i + Len(LitData)
           /\ e <= Len(s) /\ s[e] = "=" /\ q.ok
        THEN IF q.id \in DOMAIN idm
             THEN Matched(q.end,
                          SubSeq(s, i, e - 1) \o <<"=", q.quote, "#">> \o idm[q.id]
                               \o <<q.quote>>, 1)
             ELSE Matched(q.end, SubSeq(s, i, q.end - 1), 0)
        ELSE NoMatch

\* the passes in the order the source applies them
Passes == <<"id_decl", "href", "href_url", "url_ref", "values", "timing",
            "from_to", "getelementbyid", "queryselector", "data_attr">>

MatchAt(pass, idm, s, i) ==
    CASE pass = "id_decl"        -> replace_id_decl(idm, s, i)
      [] pass = "href"           -> replace_href(idm, s, i)
      [] pass = "href_url"       -> replace_href_url(idm, s, i)
      [] pass = "url_ref"        -> replace_url_ref(idm, s, i)
      [] pass = "values"         -> replace_values_refs(idm, s, i)
      [] pass = "timing"         -> replace_timing_ref(idm, s, i)
      [] pass = "from_to"        -> replace_from_to(idm, s, i)
      [] pass = "getelementbyid" -> replace_js_getelementbyid(idm, s, i)
      [] pass = "queryselector"  -> replace_js_queryselector(idm, s, i)
      [] pass = "data_attr"      -> replace_data_attr(idm, s, i)

\* re.sub(pattern, repl, s) from position i on: leftmost matches first and
\* without overlap, the text between matches copied; K holds the positions
\* where the pattern matches
RECURSIVE SubFrom(_, _, _, _, _)
SubFrom(pass, idm, s, K, i) ==
    IF \A k \in K : k < i THEN [text |-> SubSeq(s, i, Len(s)), n |-> 0]
    ELSE Bind(Min({k \in K : k >= i}), LAMBDA k :
         Bind(MatchAt(pass, idm, s, k), LAMBDA m :
         Bind(SubFrom(pass, idm, s, K, m.end), LAMBDA r :
              [text |-> SubSeq(s, i, k - 1) \o m.rep \o r.text,
               n |-> m.n + r.n])))

ReSub(pass, idm, s) ==
    Bind({k \in 1..Len(s) : MatchAt(pass, idm, s, k).ok},
         LAMBDA K : SubFrom(pass, idm, s, K, 1))

\* result and ref_count after the passes k..10, from the text and count acc
RECURSIVE RunPasses(_, _, _)
RunPasses(idm, acc, k) ==
    IF k > Len(Passes) THEN acc
    ELSE Bind(ReSub(Passes[k], idm, acc.text), LAMBDA r :
         Bind([text |-> r.text, n |-> acc.n + r.n], LAMBDA a :
              RunPasses(idm, a, k + 1)))

Rewrite(idm, svg_content) == RunPasses(idm, [text |-> svg_content, n |-> 0], 1)

------------------------------------------------------------------------------
(* Verification step and the rewrite call.                                 *)

\* sample_ids = list(ids_to_prefix)[:100]
SampleCap == 100

\* the three patterns of check_patterns for original_id
check_patterns(original_id) ==
    { LitHref \o <<"=", "\"", "#">> \o original_id \o <<"\"">>,
      LitHref \o <<"=", "'", "#">> \o original_id \o <<"'">>,
      LitUrlOpen \o original_id \o <<")">> }

\* as Verify, without the check of the declarations that remain
Verify_refs_only(result, to_prefix) ==
    {<<"Unprefixed reference remains for ID", original_id>> :
        original_id \in {x \in to_prefix :
                           \E pattern \in check_patterns(x) : Contains(result, pattern)}}

\* The error list.  The source appends in the iteration order of a Python
\* set, which the language leaves open; the list holds one entry at most per
\* kind and identifier, so it is modelled as the set of its entries.  The
\* sample is the whole table as long as it has no more than SampleCap keys.
Verify(result, to_prefix) ==
    LET remaining_ids == FindAllIds(result)
        sample_ids == IF Cardinality(to_prefix) <= SampleCap THEN to_prefix
                      ELSE CHOOSE S \in SUBSET to_prefix : Cardinality(S) = SampleCap
    IN  {<<"Unprefixed ID declaration remains", id_val>> :
            id_val \in remaining_ids \cap to_prefix}
        \cup
        {<<"Unprefixed reference remains for ID", original_id>> :
            original_id \in {x \in sample_ids :
                               \E pattern \in check_patterns(x) : Contains(result, pattern)}}

\* as prefix_svg_ids, with verification errors fatal for the rewritten text:
\* the input is handed back when the verifier finds an error
prefix_svg_ids_fatal(svg_content, prefix, verify) ==
    Bind(original_ids(svg_content), LAMBDA found :
    Bind(ids_to_prefix(found, prefix), LAMBDA to_prefix :
        IF to_prefix = {}
        THEN [content |-> svg_content, prefix |-> prefix,
              stats |-> [ids_found |-> Cardinality(found),
                         references_updated |-> 0, errors |-> {}],
              errors |-> {}]
        ELSE Bind(id_map(to_prefix, prefix), LAMBDA idm :
             Bind(Rewrite(idm, svg_content), LAMBDA r :
             Bind(IF verify THEN Verify(r.text, to_prefix) ELSE {}, LAMBDA errors :
                 [content |-> IF errors = {} THEN r.text ELSE svg_content,
                  prefix |-> prefix,
                  stats |-> [ids_found |-> Cardinality(found),
                             references_updated |-> r.n, errors |-> errors],
                  errors |-> errors])))))

\* as prefix_svg_ids, with every declared identifier scheduled, also those
\* that carry the prefix
prefix_svg_ids_reprefix(svg_content, prefix, verify) ==
    Bind(original_ids(svg_content), LAMBDA found :
        IF found = {}
        THEN [content |-> svg_content, prefix |-> prefix,
              stats |-> [ids_found |-> 0, references_updated |-> 0, errors |-> {}],
              errors |-> {}]
        ELSE Bind(id_map(found, prefix), LAMBDA idm :
             Bind(Rewrite(idm, svg_content), LAMBDA r :
             Bind(IF verify THEN Verify(r.text, found) ELSE {}, LAMBDA errors :
                 [content |-> r.text, prefix |-> prefix,
                  stats |-> [ids_found |-> Cardinality(found),
                             references_updated |-> r.n, errors |-> errors],
                  errors |-> errors]))))

\* prefix_svg_ids(svg_content, prefix, verify) with an explicit prefix
prefix_svg_ids(svg_content, prefix, verify) ==
    Bind(original_ids(svg_content), LAMBDA found :
    Bind(ids_to_prefix(found, prefix), LAMBDA to_prefix :
        IF to_prefix = {}
        THEN [content |-> svg_content, prefix |-> prefix,
              stats |-> [ids_found |-> Cardinality(found),
                         references_updated |-> 0, errors |-> {}],
              errors |-> {}]
        ELSE Bind(id_map(to_prefix, prefix), LAMBDA idm :
             Bind(Rewrite(idm, svg_content), LAMBDA r :
             Bind(IF verify THEN Verify(r.text, to_prefix) ELSE {}, LAMBDA errors :
                 [content |-> r.text, prefix |-> prefix,
                  stats |-> [ids_found |-> Cardinality(found),
                             references_updated |-> r.n, errors |-> errors],
                  errors |-> errors])))))

------------------------------------------------------------------------------
(* The documents of the model.  A document is written from elements, each  *)
(* one declaration or one reference surface holding an identifier.         *)

IdX  == <<"X">>
IdX2 == <<"X", "2">>
Id2X == <<"2", "X">>
Ids  == {IdX, IdX2, Id2X}

\* the text of element kind t holding the identifier id; ev is the event
\* name of the element kind "event", a dotted timing expression id.ev
ElementText(t, id, ev) ==
    CASE t = "decl"      -> <<"<","r","e","c","t"," ","i","d","=","\"">> \o id \o <<"\"","/",">">>
      [] t = "decl_sq"   -> <<"<","r","e","c","t"," ","i","d","=","'">> \o id \o <<"'","/",">">>
      [] t = "decl_mq"   -> <<"<","r","e","c","t"," ","i","d","=","\"">> \o id \o <<"'","/",">">>
      [] t = "href"      -> <<"<","u","s","e"," ","h","r","e","f","=","\"","#">> \o id \o <<"\"","/",">">>
      [] t = "xlink"     -> <<"<","u","s","e"," ","x","l","i","n","k",":","h","r","e","f","=","'","#">> \o id \o <<"'","/",">">>
      [] t = "url"       -> <<"<","a"," ","f","i","l","l","=","\"","u","r","l","(","#">> \o id \o <<")","\"","/",">">>
      [] t = "hybrid"    -> <<"<","a"," ","x","l","i","n","k",":","h","r","e","f","=","\"","u","r","l","(","#">> \o id \o <<")","\"","/",">">>
      [] t = "values"    -> <<"<","a"," ","v","a","l","u","e","s","=","\"","#">> \o id \o <<";"," ","#">> \o id \o <<"\"","/",">">>
      [] t = "begin"     -> <<"<","a"," ","b","e","g","i","n","=","\"">> \o id \o <<".","c","l","i","c","k","\"","/",">">>
      [] t = "event"     -> <<"<","a"," ","e","n","d","=","\"">> \o id \o <<".">> \o ev \o <<"\"","/",">">>
      [] t = "from"      -> <<"<","a"," ","f","r","o","m","=","\"","#">> \o id \o <<"\"","/",">">>
      [] t = "to"        -> <<"<","a"," ","t","o","=","'","#">> \o id \o <<"'","/",">">>
      [] t = "by"        -> <<"<","a"," ","b","y","=","\"","#">> \o id \o <<"\"","/",">">>
      [] t = "gebi"      -> <<"<","s",">","g","e","t","E","l","e","m","e","n","t","B","y","I","d","(","\"">> \o id \o <<"\"",")","<","/","s",">">>
      [] t = "qs"        -> <<"<","s",">","q","u","e","r","y","S","e","l","e","c","t","o","r","(","'","#">> \o id \o <<"'",")","<","/","s",">">>
      [] t = "data"      -> <<"<","a"," ","d","a","t","a","-","r","e","f","=","\"","#">> \o id \o <<"\"","/",">">>
      [] t = "svg"       -> <<"<","s","v","g",">">>
      [] t = "svg_end"   -> <<"<","/","s","v","g",">">>
      [] t = "data_href" -> <<"<","a"," ","d","a","t","a","-","h","r","e","f","=","\"","#">> \o id \o <<"\"","/",">">>

\* declarations: both quoting styles, and one whose closing quote is not its
\* opening quote (id_pattern takes it for a declaration, pattern 1 does not)
DeclSeq == << [t |-> "decl", id |-> IdX], [t |-> "decl", id |-> Id2X],
              [t |-> "decl_sq", id |-> IdX2], [t |-> "decl_mq", id |-> IdX] >>

\* the reference surfaces
RefKinds == {"href", "xlink", "url", "hybrid", "values", "begin", "event",
             "from", "to", "by", "gebi", "qs", "data", "data_href"}

RefFrags == [t : RefKinds, id : Ids]

\* at most MaxDecls declarations in one document
MaxDecls == 2

\* the declaration parts: up to MaxDecls declarations, in the order of DeclSeq
DeclParts ==
    LET idx == UNION {[1..n -> 1..Len(DeclSeq)] : n \in 0..MaxDecls}
    IN  { [k \in 1..Len(s) |-> DeclSeq[s[k]]] :
            s \in {x \in idx : \A k \in 1..(Len(x) - 1) : x[k] <= x[k + 1]} }

\* a document: its declarations, then one reference element at most
Documents ==
    DeclParts \cup {Append(d, r) : d \in DeclParts, r \in RefFrags}

RECURSIVE DocText(_)
DocText(fs) ==
    IF fs = <<>> THEN <<>>
    ELSE ElementText(fs[1].t, fs[1].id, fs[1].id) \o DocText(Tail(fs))

\* the prefixes a caller passes: a letter prefix, a digit, the empty string
Prefixes == {<<"q", "_">>, <<"2">>, <<>>}

------------------------------------------------------------------------------
(* The rewrite call and a second rewrite of its result.                    *)

\* what a call gave: the value it returned, or the exception it raised
Returned(v) == [raised |-> FALSE, value |-> v]
Raised(e)   == [raised |-> TRUE, exc |-> e]
NoValue     == Returned(<<>>)

Init ==
    /\ op = "none"
    /\ args = NoValue
    /\ out = NoValue
    /\ prev = NoValue
    /\ frags = <<>>
    /\ assigned = <<>>

\* prefix_svg_ids(svg_content, prefix, verify) on a document of docs
PrefixSvgIdsOf(docs) ==
    /\ op = "none"
    /\ \E fs \in docs, prefix \in Prefixes, verify \in BOOLEAN :
          \E svg_content \in {DocText(fs)} :
              /\ frags' = fs
              /\ args' = [svg_content |-> svg_content, prefix |-> prefix,
                          verify |-> verify]
              /\ out' = Returned(prefix_svg_ids(svg_content, prefix, verify))
    /\ op' = "prefix_svg_ids"
    /\ UNCHANGED <<prev, assigned>>

PrefixSvgIds == PrefixSvgIdsOf(Documents)

\* prefix_svg_ids applied to the content it returned, with the same prefix
PrefixAgain ==
    /\ op = "prefix_svg_ids"
    /\ op' = "prefix_again"
    /\ args' = [args EXCEPT !.svg_content = out.value.content]
    /\ out' = Returned(prefix_svg_ids(out.value.content, args.prefix, args.verify))
    /\ prev' = out
    /\ UNCHANGED <<frags, assigned>>

Next == PrefixSvgIds \/ PrefixAgain

Spec == Init /\ [][Next]_vars

------------------------------------------------------------------------------
(* Composition: the sequence-derived prefixes, combine_svgs_with_prefixes  *)
(* and the tile loading of create_grid_composite.                          *)

\* str(n) of a natural number
DigitChars == <<"0", "1", "2", "3", "4", "5", "6", "7", "8", "9">>

RECURSIVE str(_)
str(n) ==
    IF n < 10 THEN <<DigitChars[n + 1]>>
    ELSE str(n \div 10) \o <<DigitChars[(n % 10) + 1]>>

\* reversed(result)
RECURSIVE reversed(_)
reversed(s) == IF s = <<>> THEN <<>> ELSE Append(reversed(Tail(s)), Head(s))

\* as index_to_prefix_loop, without the carry: n = n // 26, until n = 0
RECURSIVE index_to_prefix_loop_nocarry(_, _)
index_to_prefix_loop_nocarry(n, result) ==
    Bind(Append(result, ascii_lowercase[(n % 26) + 1]), LAMBDA r :
         IF n \div 26 <= 0 THEN r
         ELSE index_to_prefix_loop_nocarry(n \div 26, r))

\* the while loop of _index_to_prefix: result.append(chars[n % 26]);
\* n = n // 26 - 1; until n < 0
RECURSIVE index_to_prefix_loop(_, _)
index_to_prefix_loop(n, result) ==
    Bind(Append(result, ascii_lowercase[(n % 26) + 1]), LAMBDA r :
         IF (n \div 26) - 1 < 0 THEN r
         ELSE index_to_prefix_loop((n \div 26) - 1, r))

\* _index_to_prefix(index)
index_to_prefix(index) ==
    reversed(index_to_prefix_loop(index, <<>>)) \o <<"_">>

\* re.search(r"<svg[^>]*>", s, re.IGNORECASE) at position i: the position
\* after the match, 0 without a match
SvgTagAt(s, i) ==
    IF /\ i + 3 <= Len(s)
       /\ s[i] = "<"
       /\ s[i + 1] \in {"s", "S"} /\ s[i + 2] \in {"v", "V"} /\ s[i + 3] \in {"g", "G"}
       /\ RunNotIn(s, i + 4, {">"}) <= Len(s)
    THEN RunNotIn(s, i + 4, {">"}) + 1
    ELSE 0

LitSvgEnd == <<"<", "/", "s", "v", "g", ">">>

\* _extract_svg_inner(svg_content)
extract_svg_inner(svg_content) ==
    LET M     == {i \in 1..Len(svg_content) : SvgTagAt(svg_content, i) > 0}
        E     == {i \in 1..Len(svg_content) : IsAt(svg_content, i, LitSvgEnd)}
        start == SvgTagAt(svg_content, Min(M))
    IN  IF M = {} THEN svg_content
        ELSE IF E = {} THEN SubSeq(svg_content, start, Len(svg_content))
        ELSE SubSeq(svg_content, start, (CHOOSE e \in E : \A f \in E : f <= e) - 1)

\* as unpack, with a tuple of another length taken for its first two elements
unpack_lenient(item) ==
    IF Len(item) = 4
    THEN [ok |-> TRUE, svg_content |-> item[1], name |-> item[2],
          x |-> item[3], y |-> item[4]]
    ELSE [ok |-> TRUE, svg_content |-> item[1], name |-> item[2], x |-> 0, y |-> 0]

\* the tuple formats: (content, name) at the origin, (content, name, x, y)
unpack(item) ==
    IF Len(item) = 2
    THEN [ok |-> TRUE, svg_content |-> item[1], name |-> item[2], x |-> 0, y |-> 0]
    ELSE IF Len(item) = 4
    THEN [ok |-> TRUE, svg_content |-> item[1], name |-> item[2],
          x |-> item[3], y |-> item[4]]
    ELSE [ok |-> FALSE, len |-> Len(item)]

ValueError(msg, detail) == [type |-> "ValueError", msg |-> msg, detail |-> detail]

\* the state of the first loop of combine_svgs_with_prefixes before it starts
NoneCombined ==
    [raised |-> FALSE, prefixes_used |-> <<>>, positions_used |-> <<>>,
     all_prefixed |-> <<>>, total_ids |-> 0, total_refs |-> 0, assigned |-> <<>>]

\* the first loop of combine_svgs_with_prefixes from iteration i (the list
\* index i - 1) on; a dictionary is a function on its keys
RECURSIVE combine_loop(_, _, _)
combine_loop(svg_contents, i, st) ==
    IF i > Len(svg_contents) THEN st
    ELSE Bind(unpack(svg_contents[i]), LAMBDA u :
         IF ~u.ok
         THEN [st EXCEPT !.raised = TRUE] @@
              [exc |-> ValueError("Invalid tuple format: expected 2 or 4 elements, got",
                                  u.len)]
         ELSE Bind(index_to_prefix(i - 1), LAMBDA prefix :
              Bind(prefix_svg_ids(u.svg_content, prefix, TRUE), LAMBDA result :
              IF result.errors # {}
              THEN [st EXCEPT !.raised = TRUE, !.assigned = Append(@, prefix)] @@
                   [exc |-> ValueError("Prefixing failed for", <<u.name, result.errors>>)]
              ELSE Bind([raised |-> FALSE,
                         prefixes_used |-> (u.name :> prefix) @@ st.prefixes_used,
                         positions_used |-> (u.name :> <<u.x, u.y>>) @@ st.positions_used,
                         all_prefixed |-> Append(st.all_prefixed,
                                                 <<result.content, u.name, u.x, u.y>>),
                         total_ids |-> st.total_ids + result.stats.ids_found,
                         total_refs |-> st.total_refs + result.stats.references_updated,
                         assigned |-> Append(st.assigned, prefix)],
                        LAMBDA t : combine_loop(svg_contents, i + 1, t)))))

LitBeginComment == <<"<", "!", "-", "-", " ", "B", "E", "G", "I", "N", ":", " ">>
LitEndComment   == <<"<", "!", "-", "-", " ", "E", "N", "D", ":", " ">>
LitCommentClose == <<" ", "-", "-", ">">>
LitGroupOpen    == <<"<", "g", " ", "i", "d", "=", "\"">>
LitRoot         == <<"r", "o", "o", "t", "\"">>
LitGroupClose   == <<"\n", "<", "/", "g", ">", "\n">>
LitTranslate    ==
    <<" ", "t", "r", "a", "n", "s", "f", "o", "r", "m", "=", "\"",
      "t", "r", "a", "n", "s", "l", "a", "t", "e", "(">>

\* transform_attr: only for a position other than the origin
transform_attr(x, y) ==
    IF x # 0 \/ y # 0
    THEN LitTranslate \o str(x) \o <<",", " ">> \o str(y) \o <<")", "\"">>
    ELSE <<>>

\* one entry of combined_parts
combined_part(entry, prefixes_used) ==
    LitBeginComment \o entry[2] \o LitCommentClose \o <<"\n">>
    \o LitGroupOpen \o prefixes_used[entry[2]] \o LitRoot
    \o transform_attr(entry[3], entry[4]) \o <<">", "\n">>
    \o extract_svg_inner(entry[1]) \o LitGroupClose
    \o LitEndComment \o entry[2] \o LitCommentClose

\* chr(10).join(combined_parts) from entry k on
RECURSIVE join_parts(_, _, _)
join_parts(all_prefixed, prefixes_used, k) ==
    IF k > Len(all_prefixed) THEN <<>>
    ELSE Bind(combined_part(all_prefixed[k], prefixes_used), LAMBDA part :
         Bind(join_parts(all_prefixed, prefixes_used, k + 1), LAMBDA rest :
              IF k < Len(all_prefixed) THEN part \o <<"\n">> \o rest ELSE part))

LitXmlHeader ==
    <<"<", "?", "x", "m", "l", " ", "v", "e", "r", "s", "i", "o", "n", "=",
      "\"", "1", ".", "0", "\"", " ", "e", "n", "c", "o", "d", "i", "n", "g",
      "=", "\"", "U", "T", "F", "-", "8", "\"", "?", ">", "\n", "<", "s", "v",
      "g", " ", "x", "m", "l", "n", "s", "=", "\"", "h", "t", "t", "p", ":",
      "/", "/", "w", "w", "w", ".", "w", "3", ".", "o", "r", "g", "/", "2",
      "0", "0", "0", "/", "s", "v", "g", "\"", "\n", " ", " ", " ", " ", " ",
      "x", "m", "l", "n", "s", ":", "x", "l", "i", "n", "k", "=", "\"", "h",
      "t", "t", "p", ":", "/", "/", "w", "w", "w", ".", "w", "3", ".", "o",
      "r", "g", "/", "1", "9", "9", "9", "/", "x", "l", "i", "n", "k", "\"",
      "\n", " ", " ", " ", " ", " ", "w", "i", "d", "t", "h", "=", "\"">>
LitHeight  == <<"\"", " ", "h", "e", "i", "g", "h", "t", "=", "\"">>
LitViewBox ==
    <<"\"", "\n", " ", " ", " ", " ", " ", "v", "i", "e", "w", "B", "o", "x", "=", "\"">>
LitSvgTail == <<"\n", "<", "/", "s", "v", "g", ">">>

\* combined_svg
combined_svg(parts, container_viewbox, container_width, container_height) ==
    LitXmlHeader \o str(container_width) \o LitHeight \o str(container_height)
    \o LitViewBox \o container_viewbox \o <<"\"", ">", "\n">> \o parts \o LitSvgTail

\* combine_svgs_with_prefixes: what it gives, and the prefix of each
\* iteration of its first loop
combine_svgs_with_prefixes(svg_contents, container_viewbox, container_width, container_height) ==
    Bind(combine_loop(svg_contents, 1, NoneCombined), LAMBDA st :
        IF st.raised THEN [result |-> Raised(st.exc), assigned |-> st.assigned]
        ELSE Bind(join_parts(st.all_prefixed, st.prefixes_used, 1), LAMBDA parts :
             [result |-> Returned(
                  [content |-> combined_svg(parts, container_viewbox,
                                            container_width, container_height),
                   prefixes |-> st.prefixes_used,
                   positions |-> st.positions_used,
                   stats |-> [total_ids |-> st.total_ids,
                              total_references |-> st.total_refs,
                              svg_count |-> Len(svg_contents)]]),
              assigned |-> st.assigned]))

------------------------------------------------------------------------------
(* The numbers of svg_grid_compositor: an int or a float, held as the      *)
(* fraction n/d in lowest terms with d > 0; f tells a float from an int.   *)
(* A float of the model has the value of the fraction; the texts and the   *)
(* parameters of the model are chosen so that the two decimals printed by  *)
(* the program are those of the fraction.                                  *)

Abs(a) == IF a < 0 THEN -a ELSE a

RECURSIVE gcd(_, _)
gcd(a, b) == IF b = 0 THEN a ELSE gcd(b, a % b)

\* the fraction n/d in lowest terms, d # 0
Frac(n, d, f) ==
    LET g == gcd(Abs(n), Abs(d))
        s == IF d < 0 THEN -1 ELSE 1
    IN  [n |-> s * (n \div g), d |-> s * (d \div g), f |-> f]

\* an int of the program
IntNum(i) == [n |-> i, d |-> 1, f |-> FALSE]

\* a float of the program
FloatNum(n, d) == Frac(n, d, TRUE)

\* a + b, a - b, a * b: a float when one operand is a float
NumAdd(a, b) == Frac(a.n * b.d + b.n * a.d, a.d * b.d, a.f \/ b.f)
NumSub(a, b) == Frac(a.n * b.d - b.n * a.d, a.d * b.d, a.f \/ b.f)
NumMul(a, b) == Frac(a.n * b.n, a.d * b.d, a.f \/ b.f)

\* a / b for b # 0: always a float
NumDiv(a, b) == Frac(a.n * b.d, a.d * b.n, TRUE)

\* a < b, a <= b, a == b
NumLt(a, b) == a.n * b.d < b.n * a.d
NumLe(a, b) == a.n * b.d <= b.n * a.d
NumEq(a, b) == a.n * b.d = b.n * a.d

\* min(a, b): the first of the two unless the second is smaller
NumMin(a, b) == IF NumLt(b, a) THEN b ELSE a

\* the truth value of a number: zero is false
NumTrue(a) == a.n # 0

\* int(a): towards zero
NumInt(a) ==
    IF a.n >= 0 THEN IntNum(a.n \div a.d) ELSE IntNum(-((-a.n) \div a.d))

\* the digits after the point of the fraction r/d, r < d, of a decimal text
RECURSIVE FracDigits(_, _)
FracDigits(r, d) ==
    IF r = 0 THEN <<>>
    ELSE <<DigitChars[((r * 10) \div d) + 1]>> \o FracDigits((r * 10) % d, d)

\* str(a) inside an f-string: an int in digits, a float with a point
NumStr(a) ==
    LET m    == Abs(a.n)
        sign == IF a.n < 0 THEN <<"-">> ELSE <<>>
    IN  IF ~a.f THEN sign \o str(m)
        ELSE IF a.d = 1 THEN sign \o str(m) \o <<".", "0">>
        ELSE sign \o str(m \div a.d) \o <<".">> \o FracDigits(m % a.d, a.d)

\* f"{a:.2f}": two decimals, the nearest, the even one of two nearest
Fmt2(a) ==
    LET m    == Abs(a.n) * 100
        q    == m \div a.d
        r    == m % a.d
        h    == IF 2 * r > a.d \/ (2 * r = a.d /\ q % 2 = 1) THEN q + 1 ELSE q
        sign == IF a.n < 0 THEN <<"-">> ELSE <<>>
    IN  sign \o str(h \div 100) \o <<".", DigitChars[((h % 100) \div 10) + 1],
                                     DigitChars[(h % 10) + 1]>>

------------------------------------------------------------------------------
(* parse_viewbox: the viewBox of a document, or its width and height.      *)

ascii_uppercase ==
    <<"A","B","C","D","E","F","G","H","I","J","K","L","M",
      "N","O","P","Q","R","S","T","U","V","W","X","Y","Z">>

\* the character re.IGNORECASE compares
LowerOf(c) ==
    IF c \in Upper THEN ascii_lowercase[CHOOSE k \in 1..26 : ascii_uppercase[k] = c]
    ELSE c

\* the lower-case literal lit occurs in s at position i, in any case
IsAtNoCase(s, i, lit) ==
    /\ i >= 1
    /\ i + Len(lit) - 1 <= Len(s)
    /\ \A k \in 1..Len(lit) : LowerOf(s[i + k - 1]) = lit[k]

\* str.split() from position i on: the runs of characters between white space
RECURSIVE Split(_, _)
Split(s, i) ==
    Bind(RunIn(s, i, Space), LAMBDA b :
         IF b > Len(s) THEN <<>>
         ELSE Bind(RunNotIn(s, b, Space), LAMBDA e :
              <<SubSeq(s, b, e - 1)>> \o Split(s, e)))

\* the number a run of digits writes
RECURSIVE DigitsValue(_)
DigitsValue(ds) ==
    IF ds = <<>> THEN 0
    ELSE DigitsValue(SubSeq(ds, 1, Len(ds) - 1)) * 10
         + ((CHOOSE k \in 1..10 : DigitChars[k] = ds[Len(ds)]) - 1)

RECURSIVE Pow10(_)
Pow10(k) == IF k = 0 THEN 1 ELSE 10 * Pow10(k - 1)

\* float(p) of a text without white space: a sign, digits, a point and
\* digits give the number; a text that is no number raises ValueError.  (The
\* texts of the model hold no exponent, no underscore, and neither inf nor
\* nan, which float() reads as well.)
ParseFloat(p) ==
    LET b   == IF p # <<>> /\ p[1] \in {"+", "-"} THEN 2 ELSE 1
        e1  == RunIn(p, b, Digit)
        dot == e1 <= Len(p) /\ p[e1] = "."
        e2  == IF dot THEN RunIn(p, e1 + 1, Digit) ELSE e1
        nf  == IF dot THEN e2 - e1 - 1 ELSE 0
        ip  == DigitsValue(SubSeq(p, b, e1 - 1))
        fp  == IF dot THEN DigitsValue(SubSeq(p, e1 + 1, e2 - 1)) ELSE 0
        sg  == IF b = 2 /\ p[1] = "-" THEN -1 ELSE 1
    IN  IF e2 = Len(p) + 1 /\ (e1 - b) + nf >= 1
        THEN [ok |-> TRUE, value |-> FloatNum(sg * (ip * Pow10(nf) + fp), Pow10(nf))]
        ELSE [ok |-> FALSE]

LitViewBoxEq == <<"v", "i", "e", "w", "b", "o", "x", "=">>
LitWidthEq   == <<"w", "i", "d", "t", "h", "=">>
LitHeightEq  == <<"h", "e", "i", "g", "h", "t", "=">>

\* viewBox=["\']\s*([^"\']+)\s*["\'] with re.IGNORECASE at position i: a
\* quote, one character at least that is no quote, and a quote; the white
\* space around group 1 is of no account to split()
ViewBoxAt(s, i) ==
    LET k == i + Len(LitViewBoxEq)
        j == RunNotIn(s, k + 1, Quote)
    IN  IF /\ IsAtNoCase(s, i, LitViewBoxEq)
           /\ k <= Len(s) /\ s[k] \in Quote
           /\ j > k + 1 /\ j <= Len(s)
        THEN [ok |-> TRUE, parts |-> Split(SubSeq(s, k + 1, j - 1), 1)]
        ELSE [ok |-> FALSE]

\* \bNAME=["\']\s*(\d+(?:\.\d+)?) at position i, name the literal NAME=
SizeAttrAt(s, i, name) ==
    LET k  == i + Len(name)
        b  == RunIn(s, k + 1, Space)
        e1 == RunIn(s, b, Digit)
        e2 == IF e1 + 1 <= Len(s) /\ s[e1] = "." /\ s[e1 + 1] \in Digit
              THEN RunIn(s, e1 + 1, Digit) ELSE e1
    IN  IF /\ WordBoundary(s, i)
           /\ IsAt(s, i, name)
           /\ k <= Len(s) /\ s[k] \in Quote
           /\ e1 > b
        THEN [ok |-> TRUE, text |-> SubSeq(s, b, e2 - 1)]
        ELSE [ok |-> FALSE]

\* float(match.group(1)) if match else 100, for re.search of the attribute
SizeAttr(s, name) ==
    LET M == {i \in 1..Len(s) : SizeAttrAt(s, i, name).ok}
    IN  IF M = {} THEN IntNum(100)
        ELSE ParseFloat(SizeAttrAt(s, Min(M), name).text).value

\* the four floats of parts, or the first part that is no number
FloatsOf(parts) ==
    LET bad == {k \in 1..Len(parts) : ~ParseFloat(parts[k]).ok}
    IN  IF bad = {}
        THEN [raised |-> FALSE, vb |-> [k \in 1..Len(parts) |-> ParseFloat(parts[k]).value]]
        ELSE [raised |-> TRUE,
              exc |-> ValueError("could not convert string to float", parts[Min(bad)])]

\* parse_viewbox(svg_content)
parse_viewbox(svg_content) ==
    LET M == {i \in 1..Len(svg_content) : ViewBoxAt(svg_content, i).ok}
        fallback == [raised |-> FALSE,
                     vb |-> <<IntNum(0), IntNum(0),
                              SizeAttr(svg_content, LitWidthEq),
                              SizeAttr(svg_content, LitHeightEq)>>]
    IN  IF M = {} THEN fallback
        ELSE Bind(ViewBoxAt(svg_content, Min(M)).parts, LAMBDA parts :
                  IF Len(parts) = 4 THEN FloatsOf(parts) ELSE fallback)

------------------------------------------------------------------------------
(* The texts create_grid_composite writes.                                 *)

LitTileComment ==
    <<" ", " ", "<", "!", "-", "-", " ", "T", "i", "l", "e", ":", " ">>

LitTileSvgX ==
    <<" ", "-", "-", ">", "\n", " ", " ", "<", "s", "v", "g", " ", "x",
      "=", "\"">>

LitAttrY ==
    <<"\"", " ", "y", "=", "\"">>

LitTileWidth ==
    <<"\"", "\n", " ", " ", " ", " ", " ", " ", " ", "w", "i", "d", "t",
      "h", "=", "\"">>

LitAttrHeight ==
    <<"\"", " ", "h", "e", "i", "g", "h", "t", "=", "\"">>

LitTileViewBox ==
    <<"\"", "\n", " ", " ", " ", " ", " ", " ", " ", "v", "i", "e", "w",
      "B", "o", "x", "=", "\"">>

LitTileDefs ==
    <<"\"", "\n", " ", " ", " ", " ", " ", " ", " ", "o", "v", "e", "r",
      "f", "l", "o", "w", "=", "\"", "h", "i", "d", "d", "e", "n", "\"",
      ">", "\n", " ", " ", " ", " ", "<", "d", "e", "f", "s", ">", "\n">>

LitTileGroup ==
    <<"\n", " ", " ", " ", " ", "<", "/", "d", "e", "f", "s", ">", "\n",
      " ", " ", " ", " ", "<", "g", " ", "c", "l", "i", "p", "-", "p", "a",
      "t", "h", "=", "\"", "u", "r", "l", "(", "#">>

LitTileInner ==
    <<")", "\"", ">", "\n">>

LitTileEnd ==
    <<"\n", " ", " ", " ", " ", "<", "/", "g", ">", "\n", " ", " ", "<",
      "/", "s", "v", "g", ">">>

LitClipOpen ==
    <<" ", " ", " ", " ", "<", "c", "l", "i", "p", "P", "a", "t", "h", " ",
      "i", "d", "=", "\"">>

LitClipRectX ==
    <<"\"", ">", "\n", " ", " ", " ", " ", " ", " ", "<", "r", "e", "c",
      "t", " ", "x", "=", "\"">>

LitAttrWidth ==
    <<"\"", " ", "w", "i", "d", "t", "h", "=", "\"">>

LitClipEnd ==
    <<"\"", "/", ">", "\n", " ", " ", " ", " ", "<", "/", "c", "l", "i",
      "p", "P", "a", "t", "h", ">">>

LitGridClip ==
    <<"g", "r", "i", "d", "_", "c", "l", "i", "p", "_">>

LitLabelX ==
    <<" ", " ", "<", "t", "e", "x", "t", " ", "x", "=", "\"">>

LitLabelAnchor ==
    <<"\"", "\n", " ", " ", " ", " ", " ", " ", " ", " ", "t", "e", "x",
      "t", "-", "a", "n", "c", "h", "o", "r", "=", "\"", "m", "i", "d",
      "d", "l", "e", "\"", " ", "f", "o", "n", "t", "-", "f", "a", "m",
      "i", "l", "y", "=", "\"", "s", "a", "n", "s", "-", "s", "e", "r",
      "i", "f", "\"", "\n", " ", " ", " ", " ", " ", " ", " ", " ", "f",
      "o", "n", "t", "-", "s", "i", "z", "e", "=", "\"">>

LitLabelFill ==
    <<"\"", " ", "f", "i", "l", "l", "=", "\"", "#", "3", "3", "3", "3",
      "3", "3", "\"", ">">>

LitLabelEnd ==
    <<"<", "/", "t", "e", "x", "t", ">">>

LitContViewBox ==
    <<"\"", "\n", " ", " ", " ", " ", " ", "v", "i", "e", "w", "B", "o",
      "x", "=", "\"", "0", " ", "0", " ">>

LitContBackground ==
    <<"\"", ">", "\n", " ", " ", "<", "!", "-", "-", " ", "B", "a", "c",
      "k", "g", "r", "o", "u", "n", "d", " ", "-", "-", ">", "\n", " ",
      " ", "<", "r", "e", "c", "t", " ", "x", "=", "\"", "0", "\"", " ",
      "y", "=", "\"", "0", "\"", " ", "w", "i", "d", "t", "h", "=", "\"">>

LitContFill ==
    <<"\"", " ", "f", "i", "l", "l", "=", "\"">>

LitContTiles ==
    <<"\"", "/", ">", "\n", "\n", " ", " ", "<", "!", "-", "-", " ", "G",
      "r", "i", "d", " ", "T", "i", "l", "e", "s", " ", "-", "-", ">",
      "\n">>

LitContLabels ==
    <<"\n", "\n", " ", " ", "<", "!", "-", "-", " ", "L", "a", "b", "e",
      "l", "s", " ", "-", "-", ">", "\n">>

LitGridTilesComment ==
    <<"\n", "<", "!", "-", "-", " ", "G", "r", "i", "d", " ", "T", "i",
      "l", "e", "s", " ", "-", "-", ">", "\n">>

LitStageBackground ==
    <<"s", "t", "a", "g", "e", "_", "b", "a", "c", "k", "g", "r", "o", "u",
      "n", "d">>

LitWhite ==
    <<"#", "f", "f", "f", "f", "f", "f">>

------------------------------------------------------------------------------
(* The files of the grids.                                                 *)

SvgOpen  == [t |-> "svg", id |-> <<>>]
SvgClose == [t |-> "svg_end", id |-> <<>>]

PathHref   == <<"h", "r", "e", "f", ".", "s", "v", "g">>
PathTiming == <<"t", "i", "m", "i", "n", "g", ".", "s", "v", "g">>
PathQuote  == <<"q", "u", "o", "t", "e", ".", "s", "v", "g">>

\* the files of the tiles
TileFiles ==
    [path \in {PathHref, PathTiming, PathQuote} |->
        CASE path = PathHref ->
               <<SvgOpen, [t |-> "decl", id |-> IdX], [t |-> "href", id |-> IdX], SvgClose>>
          [] path = PathTiming ->
               <<SvgOpen, [t |-> "decl", id |-> Id2X], [t |-> "begin", id |-> Id2X], SvgClose>>
          [] path = PathQuote ->
               <<SvgOpen, [t |-> "decl_mq", id |-> IdX], SvgClose>>]

\* at most MaxTiles tiles in one grid
MaxTiles == 2

PathWide ==
    <<"w", "i", "d", "e", ".", "s", "v", "g">>

PathFull ==
    <<"f", "u", "l", "l", ".", "s", "v", "g">>

PathTall ==
    <<"t", "a", "l", "l", ".", "s", "v", "g">>

PathStage ==
    <<"s", "t", "a", "g", "e", ".", "s", "v", "g">>

PathPlain ==
    <<"p", "l", "a", "i", "n", ".", "s", "v", "g">>

PathUpper ==
    <<"u", "p", "p", "e", "r", ".", "s", "v", "g">>

OpenWide ==
    <<"<", "s", "v", "g", " ", "v", "i", "e", "w", "B", "o", "x", "=",
      "\"", "1", "0", " ", "-", "2", "0", " ", "2", "0", "0", " ", "1",
      "0", "0", "\"", ">">>

OpenFull ==
    <<"<", "s", "v", "g", " ", "v", "i", "e", "w", "B", "o", "x", "=",
      "\"", "0", " ", "0", " ", "1", "9", "2", "0", " ", "1", "0", "8",
      "0", "\"", ">">>

OpenTall ==
    <<"<", "s", "v", "g", " ", "w", "i", "d", "t", "h", "=", "\"", "5",
      "0", "\"", " ", "h", "e", "i", "g", "h", "t", "=", "\"", "8", "0",
      "\"", ">">>

TextStage ==
    <<"<", "s", "v", "g", " ", "v", "i", "e", "w", "B", "o", "x", "=",
      "\"", "0", " ", "0", " ", "8", "0", "0", " ", "6", "0", "0", "\"",
      ">", "<", "g", " ", "i", "d", "=", "\"", "S", "T", "A", "G", "E",
      "_", "B", "A", "C", "K", "G", "R", "O", "U", "N", "D", "\"", ">",
      "<", "r", "e", "c", "t", " ", "i", "d", "=", "\"", "r", "\"", "/",
      ">", "<", "/", "g", ">", "<", "/", "s", "v", "g", ">">>

TextPlain ==
    <<"<", "s", "v", "g", " ", "v", "i", "e", "w", "B", "o", "x", "=",
      "\"", "0", " ", "0", " ", "8", "0", "0", " ", "6", "0", "0", "\"",
      ">", "<", "r", "e", "c", "t", " ", "i", "d", "=", "\"", "r", "\"",
      "/", ">", "<", "/", "s", "v", "g", ">">>

TextUpper ==
    <<"<", "s", "v", "g", " ", "v", "i", "e", "w", "B", "o", "x", "=",
      "\"", "0", " ", "0", " ", "8", "0", "0", " ", "6", "0", "0", "\"",
      ">", "<", "g", " ", "I", "D", "=", "\"", "S", "T", "A", "G", "E",
      "_", "B", "A", "C", "K", "G", "R", "O", "U", "N", "D", "\"", ">",
      "<", "r", "e", "c", "t", " ", "i", "d", "=", "\"", "r", "\"", "/",
      ">", "<", "/", "g", ">", "<", "/", "s", "v", "g", ">">>


\* the tiles of the grid: the opening tag, the elements after it, and the
\* viewBox the file states (has_viewbox) or the width and height it states
GridTiles ==
    [path \in {PathWide, PathFull, PathTall} |->
        CASE path = PathWide ->
               [open |-> OpenWide, has_viewbox |-> TRUE,
                x |-> 10, y |-> -20, w |-> 200, h |-> 100,
                body |-> <<[t |-> "decl", id |-> IdX], [t |-> "href", id |-> IdX], SvgClose>>]
          [] path = PathFull ->
               [open |-> OpenFull, has_viewbox |-> TRUE,
                x |-> 0, y |-> 0, w |-> 1920, h |-> 1080,
                body |-> <<[t |-> "decl", id |-> IdX], SvgClose>>]
          [] path = PathTall ->
               [open |-> OpenTall, has_viewbox |-> FALSE,
                x |-> 0, y |-> 0, w |-> 50, h |-> 80,
                body |-> <<[t |-> "decl", id |-> Id2X], [t |-> "begin", id |-> Id2X], SvgClose>>]]

\* the backgrounds: one with the anchor group, one without, and one whose
\* anchor group writes its attribute ID in capitals; all of 800 by 600
GridBackgrounds ==
    [path \in {PathStage, PathPlain, PathUpper} |->
        CASE path = PathStage -> TextStage
          [] path = PathPlain -> TextPlain
          [] path = PathUpper -> TextUpper]

\* the content of every file of the grid
GridFiles ==
    [path \in DOMAIN GridTiles |-> GridTiles[path].open \o DocText(GridTiles[path].body)]
    @@ GridBackgrounds

\* at most MaxGridTiles tiles in one grid of SpecGrid
MaxGridTiles == 5

\* the prefixes of the tiles of a grid and of its background
GridPrefixes ==
    {<<"t">> \o str(i) \o <<"_">> : i \in 0..(MaxGridTiles + MaxTiles)} \cup {<<"b", "g", "_">>}

\* the calls prefix_svg_ids(content, prefix, TRUE) on the files of the model
GridPrefixCalls ==
    {<<c, p, prefix_svg_ids(c, p, TRUE)>> :
        c \in {GridFiles[f] : f \in DOMAIN GridFiles}
               \cup {DocText(TileFiles[f]) : f \in DOMAIN TileFiles},
        p \in GridPrefixes}

\* prefix_svg_ids(svg_content, prefix, verify=True): the call as
\* GridPrefixCalls holds it, or the call itself
prefix_verified(svg_content, prefix) ==
    LET known == {e \in GridPrefixCalls : e[1] = svg_content /\ e[2] = prefix}
    IN  IF known = {} THEN prefix_svg_ids(svg_content, prefix, TRUE)
        ELSE (CHOOSE e \in known : TRUE)[3]

------------------------------------------------------------------------------
(* create_grid_composite.                                                  *)

\* None where a number may stand
None == [n |-> 0, d |-> 0, f |-> FALSE]

\* no path: None and the empty string are both false
NoPath == <<>>

ZeroDivisionError(msg) == [type |-> "ZeroDivisionError", msg |-> msg, detail |-> <<>>]

\* Path(path).stem: the last component of the path without its last suffix
stem(path) ==
    LET S    == {k \in 1..Len(path) : path[k] = "/"}
        from == IF S = {} THEN 1 ELSE (CHOOSE k \in S : \A j \in S : j <= k) + 1
        name == SubSeq(path, from, Len(path))
        D    == {k \in 2..(Len(name) - 1) : name[k] = "."}
    IN  IF D = {} THEN name
        ELSE SubSeq(name, 1, (CHOOSE k \in D : \A j \in D : j <= k) - 1)

\* sep.join(parts)
RECURSIVE Join(_, _)
Join(parts, sep) ==
    IF parts = <<>> THEN <<>>
    ELSE IF Len(parts) = 1 THEN parts[1]
    ELSE parts[1] \o sep \o Join(Tail(parts), sep)

\* extract_svg_inner of svg_grid_compositor: the code of _extract_svg_inner
grid_extract_svg_inner(svg_content) == extract_svg_inner(svg_content)

\* the tile loop of create_grid_composite from iteration i (enumerate index
\* i - 1) on: every tile is rewritten with the prefix t<index>_, the errors
\* of the verifier are printed as a warning, and the viewBox is read from the
\* content of the file
RECURSIVE load_tiles(_, _, _)
load_tiles(tile_paths, files, i) ==
    IF i > Len(tile_paths) THEN [raised |-> FALSE, tiles |-> <<>>, warnings |-> <<>>]
    ELSE Bind(<<"t">> \o str(i - 1) \o <<"_">>, LAMBDA prefix :
         Bind(prefix_verified(files[tile_paths[i]], prefix), LAMBDA result :
         Bind(IF result.errors # {}
              THEN <<[path |-> tile_paths[i], errors |-> result.errors]>>
              ELSE <<>>, LAMBDA warning :
         Bind(parse_viewbox(files[tile_paths[i]]), LAMBDA vb :
         IF vb.raised
         THEN [raised |-> TRUE, exc |-> vb.exc, warnings |-> warning]
         ELSE Bind(load_tiles(tile_paths, files, i + 1), LAMBDA rest :
              IF rest.raised THEN [rest EXCEPT !.warnings = warning \o @]
              ELSE [raised |-> FALSE,
                    tiles |-> <<[path |-> tile_paths[i],
                                 name |-> stem(tile_paths[i]),
                                 content |-> result.content,
                                 prefix |-> prefix,
                                 viewbox |-> vb.vb,
                                 width |-> vb.vb[3],
                                 height |-> vb.vb[4]]>> \o rest.tiles,
                    warnings |-> warning \o rest.warnings])))))

\* the container: the viewBox of the background rewritten with the prefix
\* bg_, or the size the caller gives
container_of(files, o) ==
    IF o.background_svg_path # NoPath
    THEN Bind(prefix_verified(files[o.background_svg_path], <<"b", "g", "_">>).content,
              LAMBDA bg_content :
         Bind(parse_viewbox(bg_content), LAMBDA bg_vb :
              IF bg_vb.raised THEN [raised |-> TRUE, exc |-> bg_vb.exc]
              ELSE [raised |-> FALSE, has_background |-> TRUE,
                    bg_content |-> bg_content,
                    cont_width |-> bg_vb.vb[3], cont_height |-> bg_vb.vb[4]]))
    ELSE [raised |-> FALSE, has_background |-> FALSE, bg_content |-> <<>>,
          cont_width |-> o.container_width, cont_height |-> o.container_height]

\* as grid_layout, with the rows rounded down
grid_layout_floor(num_tiles, c, o) ==
    IF o.rows = None /\ o.columns = 0
    THEN [raised |-> TRUE, exc |-> ZeroDivisionError("integer division or modulo by zero")]
    ELSE
    LET rows == IF o.rows = None
                THEN num_tiles \div o.columns
                ELSE o.rows.n
        total_label_space ==
            IF o.show_labels THEN NumMul(o.label_height, IntNum(rows)) ELSE IntNum(0)
        available_width ==
            NumSub(c.cont_width, NumMul(o.margin, IntNum(o.columns + 1)))
        available_height ==
            NumSub(NumSub(c.cont_height, NumMul(o.margin, IntNum(rows + 1))),
                   total_label_space)
        g == [raised |-> FALSE, rows |-> rows, columns |-> o.columns,
              margin |-> o.margin, show_labels |-> o.show_labels,
              label_height |-> o.label_height, font_size |-> o.font_size,
              preserve_aspect_ratio |-> o.preserve_aspect_ratio,
              available_width |-> available_width,
              available_height |-> available_height]
    IN  IF o.cell_width = None \/ IntNum(rows) # None
        THEN IF o.columns = 0 \/ rows = 0
             THEN [raised |-> TRUE, exc |-> ZeroDivisionError("division by zero")]
             ELSE g @@ [calc_cell_width |-> NumDiv(available_width, IntNum(o.columns)),
                        calc_cell_height |-> NumDiv(available_height, IntNum(rows))]
        ELSE g @@ [calc_cell_width |-> o.cell_width,
                   calc_cell_height |->
                       IF o.cell_height # None /\ NumTrue(o.cell_height)
                       THEN o.cell_height
                       ELSE NumMul(o.cell_width, FloatNum(3, 4))]

\* as grid_layout, with one margin a column
grid_layout_margins(num_tiles, c, o) ==
    IF o.rows = None /\ o.columns = 0
    THEN [raised |-> TRUE, exc |-> ZeroDivisionError("integer division or modulo by zero")]
    ELSE
    LET rows == IF o.rows = None
                THEN (num_tiles + o.columns - 1) \div o.columns
                ELSE o.rows.n
        total_label_space ==
            IF o.show_labels THEN NumMul(o.label_height, IntNum(rows)) ELSE IntNum(0)
        available_width ==
            NumSub(c.cont_width, NumMul(o.margin, IntNum(o.columns)))
        available_height ==
            NumSub(NumSub(c.cont_height, NumMul(o.margin, IntNum(rows + 1))),
                   total_label_space)
        g == [raised |-> FALSE, rows |-> rows, columns |-> o.columns,
              margin |-> o.margin, show_labels |-> o.show_labels,
              label_height |-> o.label_height, font_size |-> o.font_size,
              preserve_aspect_ratio |-> o.preserve_aspect_ratio,
              available_width |-> available_width,
              available_height |-> available_height]
    IN  IF o.cell_width = None \/ IntNum(rows) # None
        THEN IF o.columns = 0 \/ rows = 0
             THEN [raised |-> TRUE, exc |-> ZeroDivisionError("division by zero")]
             ELSE g @@ [calc_cell_width |-> NumDiv(available_width, IntNum(o.columns)),
                        calc_cell_height |-> NumDiv(available_height, IntNum(rows))]
        ELSE g @@ [calc_cell_width |-> o.cell_width,
                   calc_cell_height |->
                       IF o.cell_height # None /\ NumTrue(o.cell_height)
                       THEN o.cell_height
                       ELSE NumMul(o.cell_width, FloatNum(3, 4))]

\* the rows and the size of a cell.  rows is assigned before the test of
\* line 171 reads it, so that "rows is not None" holds there in every call.
\* columns >= 0 in the model.
grid_layout(num_tiles, c, o) ==
    IF o.rows = None /\ o.columns = 0
    THEN [raised |-> TRUE, exc |-> ZeroDivisionError("integer division or modulo by zero")]
    ELSE
    LET rows == IF o.rows = None
                THEN (num_tiles + o.columns - 1) \div o.columns
                ELSE o.rows.n
        total_label_space ==
            IF o.show_labels THEN NumMul(o.label_height, IntNum(rows)) ELSE IntNum(0)
        available_width ==
            NumSub(c.cont_width, NumMul(o.margin, IntNum(o.columns + 1)))
        available_height ==
            NumSub(NumSub(c.cont_height, NumMul(o.margin, IntNum(rows + 1))),
                   total_label_space)
        g == [raised |-> FALSE, rows |-> rows, columns |-> o.columns,
              margin |-> o.margin, show_labels |-> o.show_labels,
              label_height |-> o.label_height, font_size |-> o.font_size,
              preserve_aspect_ratio |-> o.preserve_aspect_ratio,
              available_width |-> available_width,
              available_height |-> available_height]
    IN  IF o.cell_width = None \/ IntNum(rows) # None
        THEN IF o.columns = 0 \/ rows = 0
             THEN [raised |-> TRUE, exc |-> ZeroDivisionError("division by zero")]
             ELSE g @@ [calc_cell_width |-> NumDiv(available_width, IntNum(o.columns)),
                        calc_cell_height |-> NumDiv(available_height, IntNum(rows))]
        ELSE g @@ [calc_cell_width |-> o.cell_width,
                   calc_cell_height |->
                       IF o.cell_height # None /\ NumTrue(o.cell_height)
                       THEN o.cell_height
                       ELSE NumMul(o.cell_width, FloatNum(3, 4))]

\* as tile_layout, with the tile scaled to the width of the cell
tile_layout_fit_width(i, tile, g) ==
    LET col    == i % g.columns
        row    == i \div g.columns
        cw     == g.calc_cell_width
        ch     == g.calc_cell_height
        cell_x == NumAdd(g.margin, NumMul(IntNum(col), NumAdd(cw, g.margin)))
        cell_y == NumAdd(g.margin,
                         NumMul(IntNum(row),
                                NumAdd(NumAdd(ch, g.margin),
                                       IF g.show_labels THEN g.label_height
                                                        ELSE IntNum(0))))
        scale  == IF g.preserve_aspect_ratio
                  THEN NumDiv(cw, tile.width)
                  ELSE IntNum(1)
        scaled_w == IF g.preserve_aspect_ratio THEN NumMul(tile.width, scale) ELSE cw
        scaled_h == IF g.preserve_aspect_ratio THEN NumMul(tile.height, scale) ELSE ch
    IN  [col |-> col, row |-> row, cell_x |-> cell_x, cell_y |-> cell_y,
         scale |-> scale, scaled_w |-> scaled_w, scaled_h |-> scaled_h,
         offset_x |-> IF g.preserve_aspect_ratio
                      THEN NumDiv(NumSub(cw, scaled_w), IntNum(2)) ELSE IntNum(0),
         offset_y |-> IF g.preserve_aspect_ratio
                      THEN NumDiv(NumSub(ch, scaled_h), IntNum(2)) ELSE IntNum(0)]

\* the cell of tile i (from 0) and the tile scaled into it
tile_layout(i, tile, g) ==
    LET col    == i % g.columns
        row    == i \div g.columns
        cw     == g.calc_cell_width
        ch     == g.calc_cell_height
        cell_x == NumAdd(g.margin, NumMul(IntNum(col), NumAdd(cw, g.margin)))
        cell_y == NumAdd(g.margin,
                         NumMul(IntNum(row),
                                NumAdd(NumAdd(ch, g.margin),
                                       IF g.show_labels THEN g.label_height
                                                        ELSE IntNum(0))))
        scale  == IF g.preserve_aspect_ratio
                  THEN NumMin(NumDiv(cw, tile.width), NumDiv(ch, tile.height))
                  ELSE IntNum(1)
        scaled_w == IF g.preserve_aspect_ratio THEN NumMul(tile.width, scale) ELSE cw
        scaled_h == IF g.preserve_aspect_ratio THEN NumMul(tile.height, scale) ELSE ch
    IN  [col |-> col, row |-> row, cell_x |-> cell_x, cell_y |-> cell_y,
         scale |-> scale, scaled_w |-> scaled_w, scaled_h |-> scaled_h,
         offset_x |-> IF g.preserve_aspect_ratio
                      THEN NumDiv(NumSub(cw, scaled_w), IntNum(2)) ELSE IntNum(0),
         offset_y |-> IF g.preserve_aspect_ratio
                      THEN NumDiv(NumSub(ch, scaled_h), IntNum(2)) ELSE IntNum(0)]

\* as clip_id, with one identifier for every tile
clip_id_shared(i) == LitGridClip \o str(0)

\* clip_id of tile i
clip_id(i) == LitGridClip \o str(i)

\* clip_def of tile i
clip_def(i, tile_vb) ==
    LitClipOpen \o clip_id(i) \o LitClipRectX \o NumStr(tile_vb[1])
    \o LitAttrY \o NumStr(tile_vb[2]) \o LitAttrWidth \o NumStr(tile_vb[3])
    \o LitAttrHeight \o NumStr(tile_vb[4]) \o LitClipEnd

\* tile_element of tile i, lay its layout
tile_element(i, tile, lay) ==
    LitTileComment \o tile.name \o LitTileSvgX
    \o Fmt2(NumAdd(lay.cell_x, lay.offset_x)) \o LitAttrY
    \o Fmt2(NumAdd(lay.cell_y, lay.offset_y)) \o LitTileWidth
    \o Fmt2(lay.scaled_w) \o LitAttrHeight \o Fmt2(lay.scaled_h) \o LitTileViewBox
    \o NumStr(tile.viewbox[1]) \o <<" ">> \o NumStr(tile.viewbox[2]) \o <<" ">>
    \o NumStr(tile.viewbox[3]) \o <<" ">> \o NumStr(tile.viewbox[4])
    \o LitTileDefs \o clip_def(i, tile.viewbox) \o LitTileGroup \o clip_id(i)
    \o LitTileInner \o grid_extract_svg_inner(tile.content) \o LitTileEnd

\* label_element of a tile
label_element(tile, lay, g) ==
    LET label_x == NumAdd(lay.cell_x, NumDiv(g.calc_cell_width, IntNum(2)))
        label_y == NumAdd(NumAdd(lay.cell_y, g.calc_cell_height),
                          NumMul(g.label_height, FloatNum(7, 10)))
    IN  LitLabelX \o Fmt2(label_x) \o LitAttrY \o Fmt2(label_y) \o LitLabelAnchor
        \o NumStr(g.font_size) \o LitLabelFill \o tile.name \o LitLabelEnd

\* as place_tiles, with a tile beyond the grid dropped without a warning
RECURSIVE place_tiles_silent(_, _, _)
place_tiles_silent(tiles, g, i) ==
    IF i > Len(tiles)
    THEN [raised |-> FALSE, tile_elements |-> <<>>, label_elements |-> <<>>,
          skipped |-> <<>>, cells |-> <<>>]
    ELSE IF (i - 1) \div g.columns >= g.rows
    THEN place_tiles_silent(tiles, g, i + 1)
    ELSE IF g.preserve_aspect_ratio /\ (tiles[i].width.n = 0 \/ tiles[i].height.n = 0)
    THEN [raised |-> TRUE, exc |-> ZeroDivisionError("float division by zero"),
          skipped |-> <<>>]
    ELSE Bind(tile_layout(i - 1, tiles[i], g), LAMBDA lay :
         Bind(place_tiles_silent(tiles, g, i + 1), LAMBDA rest :
              IF rest.raised THEN rest
              ELSE [raised |-> FALSE,
                    tile_elements |->
                        <<tile_element(i - 1, tiles[i], lay)>> \o rest.tile_elements,
                    label_elements |->
                        (IF g.show_labels
                         THEN <<label_element(tiles[i], lay, g)>>
                         ELSE <<>>) \o rest.label_elements,
                    skipped |-> rest.skipped,
                    cells |-> <<lay @@ [index |-> i - 1, name |-> tiles[i].name]>>
                              \o rest.cells]))

\* the loop over the tiles from iteration i (enumerate index i - 1) on: a
\* tile of a row beyond the grid is skipped with a warning on stderr
RECURSIVE place_tiles(_, _, _)
place_tiles(tiles, g, i) ==
    IF i > Len(tiles)
    THEN [raised |-> FALSE, tile_elements |-> <<>>, label_elements |-> <<>>,
          skipped |-> <<>>, cells |-> <<>>]
    ELSE IF (i - 1) \div g.columns >= g.rows
    THEN Bind(place_tiles(tiles, g, i + 1), LAMBDA rest :
              [rest EXCEPT !.skipped = <<tiles[i].name>> \o @])
    ELSE IF g.preserve_aspect_ratio /\ (tiles[i].width.n = 0 \/ tiles[i].height.n = 0)
    THEN [raised |-> TRUE, exc |-> ZeroDivisionError("float division by zero"),
          skipped |-> <<>>]
    ELSE Bind(tile_layout(i - 1, tiles[i], g), LAMBDA lay :
         Bind(place_tiles(tiles, g, i + 1), LAMBDA rest :
              IF rest.raised THEN rest
              ELSE [raised |-> FALSE,
                    tile_elements |->
                        <<tile_element(i - 1, tiles[i], lay)>> \o rest.tile_elements,
                    label_elements |->
                        (IF g.show_labels
                         THEN <<label_element(tiles[i], lay, g)>>
                         ELSE <<>>) \o rest.label_elements,
                    skipped |-> rest.skipped,
                    cells |-> <<lay @@ [index |-> i - 1, name |-> tiles[i].name]>>
                              \o rest.cells]))

\* (<g[^>]*id=["\']STAGE_BACKGROUND["\'][^>]*>) with re.IGNORECASE at
\* position i: the position after the match, 0 without a match
StageBackgroundAt(s, i) ==
    LET gt == RunNotIn(s, i + 2, {">"})
    IN  IF /\ i + 1 <= Len(s)
           /\ s[i] = "<" /\ s[i + 1] \in {"g", "G"}
           /\ gt <= Len(s)
           /\ \E k \in (i + 2)..(gt - 1) :
                 /\ IsAtNoCase(s, k, LitIdEq)
                 /\ k + 3 <= Len(s) /\ s[k + 3] \in Quote
                 /\ IsAtNoCase(s, k + 4, LitStageBackground)
                 /\ k + 4 + Len(LitStageBackground) < gt
                 /\ s[k + 4 + Len(LitStageBackground)] \in Quote
        THEN gt + 1
        ELSE 0

\* the background with the tiles inserted
insert_tiles(bg_content, tile_elements, label_elements) ==
    LET M == {i \in 1..Len(bg_content) : StageBackgroundAt(bg_content, i) > 0}
        E == {i \in 1..Len(bg_content) : IsAt(bg_content, i, LitSvgEnd)}
        joined == Join(tile_elements, <<"\n">>) \o <<"\n">>
                  \o Join(label_elements, <<"\n">>)
    IN  IF M # {}
        THEN Bind(StageBackgroundAt(bg_content, Min(M)), LAMBDA insert_pos :
                  SubSeq(bg_content, 1, insert_pos - 1) \o <<"\n">> \o joined
                  \o SubSeq(bg_content, insert_pos, Len(bg_content)))
        ELSE Bind(IF E # {} THEN CHOOSE e \in E : \A x \in E : x <= e
                  ELSE IF bg_content = <<>> THEN 1 ELSE Len(bg_content),
                  LAMBDA close_pos :
                  SubSeq(bg_content, 1, close_pos - 1) \o LitGridTilesComment
                  \o joined \o <<"\n">>
                  \o SubSeq(bg_content, close_pos, Len(bg_content)))

LitGridHeader == LitXmlHeader

\* the new container around the tiles
new_container(c, o, tile_elements, label_elements) ==
    LitGridHeader \o NumStr(NumInt(c.cont_width)) \o LitAttrHeight
    \o NumStr(NumInt(c.cont_height)) \o LitContViewBox
    \o NumStr(c.cont_width) \o <<" ">> \o NumStr(c.cont_height)
    \o LitContBackground \o NumStr(c.cont_width) \o LitAttrHeight
    \o NumStr(c.cont_height) \o LitContFill \o o.container_bg_color
    \o LitContTiles \o Join(tile_elements, <<"\n">>) \o LitContLabels
    \o Join(label_elements, <<"\n">>) \o LitSvgTail

\* create_grid_composite after its guard.  The value holds the text the
\* call returns (content), what it wrote to stderr (warnings, skipped), and
\* the variables of the call when it returns.
create_grid_composite_body(tile_paths, files, o) ==
    Bind(load_tiles(tile_paths, files, 1), LAMBDA l :
    IF l.raised THEN Raised(l.exc)
    ELSE Bind(container_of(files, o), LAMBDA c :
    IF c.raised THEN Raised(c.exc)
    ELSE Bind(grid_layout(Len(l.tiles), c, o), LAMBDA g :
    IF g.raised THEN Raised(g.exc)
    ELSE Bind(place_tiles(l.tiles, g, 1), LAMBDA p :
    IF p.raised THEN Raised(p.exc)
    ELSE Returned(
           [content |-> IF c.has_background
                        THEN insert_tiles(c.bg_content, p.tile_elements,
                                          p.label_elements)
                        ELSE new_container(c, o, p.tile_elements, p.label_elements),
            tiles |-> l.tiles,
            warnings |-> l.warnings,
            skipped |-> p.skipped,
            cells |-> p.cells,
            has_background |-> c.has_background,
            bg_content |-> c.bg_content,
            cont_width |-> c.cont_width,
            cont_height |-> c.cont_height,
            rows |-> g.rows,
            calc_cell_width |-> g.calc_cell_width,
            calc_cell_height |-> g.calc_cell_height])))))

\* as create_grid_composite, without the guard on an empty list
create_grid_composite_unguarded(tile_paths, files, o) ==
    create_grid_composite_body(tile_paths, files, o)

\* create_grid_composite(tile_paths, ...), o the keyword arguments
create_grid_composite(tile_paths, files, o) ==
    IF tile_paths = <<>>
    THEN Raised(ValueError("No tile SVG files provided", <<>>))
    ELSE create_grid_composite_body(tile_paths, files, o)

\* the keyword arguments of create_grid_composite when the caller gives none
DefaultOptions ==
    [rows |-> None, columns |-> 3, cell_width |-> None, cell_height |-> None,
     background_svg_path |-> NoPath,
     container_width |-> IntNum(1920), container_height |-> IntNum(1080),
     container_bg_color |-> LitWhite,
     margin |-> IntNum(20), show_labels |-> FALSE, label_height |-> IntNum(24),
     font_size |-> IntNum(14), preserve_aspect_ratio |-> TRUE]

------------------------------------------------------------------------------
(* The inputs of the composing calls.                                      *)

\* the documents to compose: a declaration and a reference to it inside an
\* svg element, and one with a declaration whose quotes differ
SvgDocuments ==
    { <<SvgOpen, [t |-> "decl", id |-> IdX], [t |-> "href", id |-> IdX], SvgClose>>,
      <<SvgOpen, [t |-> "decl", id |-> Id2X], [t |-> "begin", id |-> Id2X], SvgClose>>,
      <<SvgOpen, [t |-> "decl_mq", id |-> IdX], SvgClose>> }

Names == { <<"t", "i", "l", "e">>, <<"l", "o", "g", "o">> }

\* the tuples a caller passes: a pair, a placed document, and a triple
Shapes == {"pair", "placed", "triple"}

Items == [doc : SvgDocuments, name : Names, shape : Shapes]

\* the tuple of an item
TupleOf(item) ==
    CASE item.shape = "pair"   -> <<DocText(item.doc), item.name>>
      [] item.shape = "placed" -> <<DocText(item.doc), item.name, 10, 20>>
      [] item.shape = "triple" -> <<DocText(item.doc), item.name, 10>>

\* at most MaxItems tuples in one list
MaxItems == 2

ItemLists == UNION {[1..n -> Items] : n \in 0..MaxItems}

\* the largest index a prefix is asked for
MaxIndex == 704

TilePathLists == UNION {[1..n -> DOMAIN TileFiles] : n \in 0..MaxTiles}

------------------------------------------------------------------------------
(* The composing calls.                                                    *)

\* _index_to_prefix(index)
IndexToPrefix ==
    /\ op = "none"
    /\ \E index \in 0..MaxIndex :
          /\ args' = [index |-> index]
          /\ out' = Returned(index_to_prefix(index))
    /\ op' = "_index_to_prefix"
    /\ UNCHANGED <<prev, frags, assigned>>

\* combine_svgs_with_prefixes(svg_contents) with the default container
CombineSvgsWithPrefixes ==
    /\ op = "none"
    /\ \E items \in ItemLists :
          \E svg_contents \in {[k \in 1..Len(items) |-> TupleOf(items[k])]} :
          \E r \in {combine_svgs_with_prefixes(svg_contents,
                        <<"0", " ", "0", " ", "1", "2", "0", "0", " ", "6", "7", "4">>,
                        1200, 674)} :
              /\ frags' = items
              /\ args' = [svg_contents |-> svg_contents]
              /\ out' = r.result
              /\ assigned' = r.assigned
    /\ op' = "combine_svgs_with_prefixes"
    /\ UNCHANGED prev

\* create_grid_composite(tile_paths, **o) for a list of lists, the files read
\* from files; about tells what each tile file holds
CreateGridCompositeOf(lists, files, about, options) ==
    /\ op = "none"
    /\ \E tile_paths \in lists, o \in options :
          /\ frags' = [k \in 1..Len(tile_paths) |-> about[tile_paths[k]]]
          /\ args' = [tile_paths |-> tile_paths, o |-> o]
          /\ out' = create_grid_composite(tile_paths, files, o)
    /\ op' = "create_grid_composite"
    /\ UNCHANGED <<prev, assigned>>

\* create_grid_composite(tile_paths), the files read from TileFiles
CreateGridComposite ==
    CreateGridCompositeOf(TilePathLists,
                          [p \in DOMAIN TileFiles |-> DocText(TileFiles[p])],
                          TileFiles, {DefaultOptions})

\* prefix_svg_ids on one of the documents to compose
PrefixSvgDocument == PrefixSvgIdsOf(SvgDocuments)

NextCombine ==
    \/ IndexToPrefix
    \/ CombineSvgsWithPrefixes
    \/ CreateGridComposite
    \/ PrefixSvgDocument

SpecCombine == Init /\ [][NextCombine]_vars

------------------------------------------------------------------------------
(* The grid calls and their inputs (specification SpecGrid).               *)

\* calculate_grid_container_size(count, columns, cell_width, cell_height,
\* padding): the tuple it returns, and its variable rows
calculate_grid_container_size(count, columns, cell_width, cell_height, padding) ==
    LET rows   == (count + columns - 1) \div columns
        width  == NumInt(NumAdd(NumMul(IntNum(columns), cell_width),
                                NumMul(IntNum(columns - 1), padding)))
        height == NumInt(NumAdd(NumMul(IntNum(rows), cell_height),
                                NumMul(IntNum(rows - 1), padding)))
    IN  [width |-> width, height |-> height,
         viewbox |-> <<"0", " ", "0", " ">> \o NumStr(width) \o <<" ">> \o NumStr(height),
         rows |-> rows]


GridPathOrder == <<PathWide, PathFull, PathTall>>

\* the lists of tiles: the three files in turn, and two tiles of 1920 by 1080
GridPathLists ==
    {[k \in 1..n |-> GridPathOrder[((k - 1) % 3) + 1]] : n \in 0..MaxGridTiles}
    \cup {<<PathFull, PathFull>>}

\* where the grid is laid out: a container of the caller, or a background
GridContainers ==
    {[background_svg_path |-> NoPath, container_width |-> IntNum(wh[1]),
      container_height |-> IntNum(wh[2])] :
        wh \in {<<1920, 1080>>, <<1200, 1200>>, <<70, 1080>>}}
    \cup {[background_svg_path |-> p, container_width |-> IntNum(1920),
           container_height |-> IntNum(1080)] : p \in DOMAIN GridBackgrounds}

\* the rows and columns of the caller
GridRows    == {None, IntNum(1), IntNum(2)}
GridColumns == {1, 2, 3}

\* the keyword arguments of a call: the defaults but for the fields of o
OptionsWith(o) == o @@ DefaultOptions

\* the keyword arguments of the calls of SpecGrid: every grid in every
\* container with and without labels and aspect ratio, and the grids of the
\* default container with a cell size of 100 by 50
GridOptions ==
    {OptionsWith([rows |-> r, columns |-> c, show_labels |-> labels,
                  preserve_aspect_ratio |-> aspect] @@ cont) :
        r \in GridRows, c \in GridColumns, cont \in GridContainers,
        labels \in BOOLEAN, aspect \in BOOLEAN}
    \cup
    {OptionsWith([rows |-> r, columns |-> c, preserve_aspect_ratio |-> aspect,
                  cell_width |-> IntNum(100), cell_height |-> IntNum(50)]) :
        r \in {None, IntNum(1)}, c \in GridColumns, aspect \in BOOLEAN}

\* the counts and columns calculate_grid_container_size is asked for
MaxCount == 12

\* create_grid_composite on the files of the grid
CreateGrid ==
    CreateGridCompositeOf(GridPathLists, GridFiles, GridTiles, GridOptions)

\* calculate_grid_container_size(count, columns) with the default cell
CalculateGridContainerSize ==
    /\ op = "none"
    /\ \E count \in 0..MaxCount, columns \in GridColumns :
          /\ args' = [count |-> count, columns |-> columns]
          /\ out' = Returned(calculate_grid_container_size(
                                count, columns, IntNum(400), IntNum(300), IntNum(10)))
    /\ op' = "calculate_grid_container_size"
    /\ UNCHANGED <<prev, frags, assigned>>

NextGrid ==
    \/ CreateGrid
    \/ CalculateGridContainerSize

SpecGrid == Init /\ [][NextGrid]_vars

------------------------------------------------------------------------------
(* The grids of files whose size is absent or ill-formed (specification    *)
(* SpecShapes).                                                            *)

PathBare ==
    <<"b", "a", "r", "e", ".", "s", "v", "g">>

PathThree ==
    <<"t", "h", "r", "e", "e", ".", "s", "v", "g">>

PathSpaced ==
    <<"s", "p", "a", "c", "e", "d", ".", "s", "v", "g">>

PathZero ==
    <<"z", "e", "r", "o", ".", "s", "v", "g">>

PathUnit ==
    <<"u", "n", "i", "t", ".", "s", "v", "g">>

PathBgBare ==
    <<"b", "g", "b", "a", "r", "e", ".", "s", "v", "g">>

PathBgSpaced ==
    <<"b", "g", "s", "p", "a", "c", "e", "d", ".", "s", "v", "g">>

OpenBare ==
    <<"<", "s", "v", "g", ">">>

OpenThree ==
    <<"<", "s", "v", "g", " ", "v", "i", "e", "w", "B", "o", "x", "=",
      "\"", "0", " ", "0", " ", "1", "0", "0", "\"", " ", "w", "i", "d",
      "t", "h", "=", "\"", "6", "4", "\"", " ", "h", "e", "i", "g", "h",
      "t", "=", "\"", "4", "8", "\"", ">">>

OpenSpaced ==
    <<"<", "s", "v", "g", " ", "v", "i", "e", "w", "B", "o", "x", "=",
      "\"", "0", ",", " ", "0", ",", " ", "2", "0", "0", ",", " ", "1",
      "0", "0", "\"", ">">>

OpenZero ==
    <<"<", "s", "v", "g", " ", "v", "i", "e", "w", "B", "o", "x", "=",
      "\"", "0", " ", "0", " ", "0", " ", "1", "0", "0", "\"", ">">>

OpenUnit ==
    <<"<", "s", "v", "g", " ", "v", "i", "e", "w", "B", "o", "x", "=",
      "\"", "0", " ", "0", " ", "1", "0", "0", "p", "x", " ", "5", "0",
      "p", "x", "\"", ">">>

TextBgBare ==
    <<"<", "s", "v", "g", ">", "<", "r", "e", "c", "t", " ", "i", "d", "=",
      "\"", "r", "\"", "/", ">", "<", "/", "s", "v", "g", ">">>

TextBgSpaced ==
    <<"<", "s", "v", "g", " ", "v", "i", "e", "w", "B", "o", "x", "=",
      "\"", "0", ",", " ", "0", ",", " ", "8", "0", "0", ",", " ", "6",
      "0", "0", "\"", ">", "<", "r", "e", "c", "t", " ", "i", "d", "=",
      "\"", "r", "\"", "/", ">", "<", "/", "s", "v", "g", ">">>

\* the tiles whose size is absent or ill-formed: no viewBox and no size, a
\* viewBox of three numbers beside a width and a height, a viewBox with
\* commas, a viewBox of width zero, and a viewBox with units; x, y, w and h
\* are the geometry the fallback gives: the width and height the file
\* states, and 100 by 100 where it states none
ShapeTiles ==
    [path \in {PathBare, PathThree, PathSpaced, PathZero, PathUnit} |->
        [open |-> CASE path = PathBare -> OpenBare
                    [] path = PathThree -> OpenThree
                    [] path = PathSpaced -> OpenSpaced
                    [] path = PathZero -> OpenZero
                    [] path = PathUnit -> OpenUnit,
         has_viewbox |-> FALSE, x |-> 0, y |-> 0,
         w |-> IF path = PathThree THEN 64 ELSE 100,
         h |-> IF path = PathThree THEN 48 ELSE 100,
         body |-> <<[t |-> "decl", id |-> IdX], SvgClose>>]]
    @@ [path \in {PathWide} |-> GridTiles[path]]

\* the backgrounds without a viewBox and with a viewBox with commas
ShapeBackgrounds ==
    [path \in {PathBgBare, PathBgSpaced} |->
        IF path = PathBgBare THEN TextBgBare ELSE TextBgSpaced]

ShapeFiles ==
    [path \in DOMAIN ShapeTiles |-> ShapeTiles[path].open \o DocText(ShapeTiles[path].body)]
    @@ ShapeBackgrounds

\* the lists of tiles: one of the files among tiles of 200 by 100
ShapePathLists ==
    {[k \in 1..n |-> IF k = at THEN p ELSE PathWide] :
        n \in 1..MaxTiles, at \in 1..MaxTiles, p \in DOMAIN ShapeTiles \ {PathWide}}

\* the keyword arguments: one or two columns, with and without the aspect
\* ratio, in the default container and on the two backgrounds
ShapeOptions ==
    {OptionsWith([columns |-> c, preserve_aspect_ratio |-> aspect,
                  background_svg_path |-> bg]) :
        c \in {1, 2}, aspect \in BOOLEAN,
        bg \in {NoPath} \cup DOMAIN ShapeBackgrounds}

\* create_grid_composite on the files of ShapeFiles
CreateGridOfShapes ==
    CreateGridCompositeOf(ShapePathLists, ShapeFiles, ShapeTiles, ShapeOptions)

\* parse_viewbox(svg_content) on one of the files
ParseViewbox ==
    /\ op = "none"
    /\ \E path \in DOMAIN ShapeFiles :
          /\ args' = [path |-> path, svg_content |-> ShapeFiles[path]]
          /\ out' = Bind(parse_viewbox(ShapeFiles[path]), LAMBDA r :
                         IF r.raised THEN Raised(r.exc) ELSE Returned(r.vb))
    /\ op' = "parse_viewbox"
    /\ UNCHANGED <<prev, frags, assigned>>

NextShapes ==
    \/ CreateGridOfShapes
    \/ ParseViewbox

SpecShapes == Init /\ [][NextShapes]_vars

------------------------------------------------------------------------------
(* The placed compositions (specification SpecPlace).                      *)

IdRoot == <<"r", "o", "o", "t">>

\* the documents to place: one that declares X and refers to it, and one
\* that declares root
PlaceDocs ==
    { <<SvgOpen, [t |-> "decl", id |-> IdX], [t |-> "href", id |-> IdX], SvgClose>>,
      <<SvgOpen, [t |-> "decl", id |-> IdRoot], SvgClose>> }

\* what follows the content and the name in a tuple: nothing, or x and y
PlaceAt == { <<>>, <<0, 0>>, <<10, 0>>, <<0, 20>> }

PlaceItems == [doc : PlaceDocs, name : Names, at : PlaceAt]

PlaceLists == UNION {[1..n -> PlaceItems] : n \in 0..MaxItems}

\* combine_svgs_with_prefixes(svg_contents) on tuples of two and of four
\* elements, with the default container
CombinePlaced ==
    /\ op = "none"
    /\ \E items \in PlaceLists :
          \E svg_contents \in {[k \in 1..Len(items) |->
                                   <<DocText(items[k].doc), items[k].name>>
                                   \o items[k].at]} :
          \E r \in {combine_svgs_with_prefixes(svg_contents,
                        <<"0", " ", "0", " ", "1", "2", "0", "0", " ", "6", "7", "4">>,
                        1200, 674)} :
              /\ frags' = items
              /\ args' = [svg_contents |-> svg_contents]
              /\ out' = r.result
              /\ assigned' = r.assigned
    /\ op' = "combine_svgs_with_prefixes"
    /\ UNCHANGED prev

NextPlace == CombinePlaced

SpecPlace == Init /\ [][NextPlace]_vars

------------------------------------------------------------------------------
(* Several invocations of prefix_svg_ids side by side (specification       *)
(* SpecWorkers).  Every invocation has its own frame: the variables of     *)
(* prefix_svg_ids are local, and ref_count is a nonlocal of the closures   *)
(* of one call.  out holds the frame of every invocation.                  *)

\* at most MaxWorkers invocations at a time
MaxWorkers == 2

Workers == 1..MaxWorkers

\* the documents of the invocations
WorkerDocs ==
    { <<[t |-> "decl", id |-> IdX], [t |-> "values", id |-> IdX]>>,
      <<[t |-> "decl_sq", id |-> IdX2], [t |-> "begin", id |-> IdX2]>>,
      <<[t |-> "decl_mq", id |-> IdX], [t |-> "hybrid", id |-> IdX]>> }

\* the frame of an invocation before its first statement
NewFrame(svg_content, prefix) ==
    [pc |-> "table", svg_content |-> svg_content, prefix |-> prefix,
     ids_found |-> 0, ids_to_prefix |-> {}, id_map |-> <<>>,
     ref_count |-> 0, result |-> <<>>, pass |-> 1, returned |-> <<>>]

\* lines 83-101 in the frame of invocation w: the table, and the early
\* return when it is empty
after_table(frames, w) ==
    Bind(frames[w], LAMBDA f :
    Bind(original_ids(f.svg_content), LAMBDA found :
    Bind(ids_to_prefix(found, f.prefix), LAMBDA to_prefix :
        IF to_prefix = {}
        THEN [f EXCEPT !.pc = "done", !.ids_found = Cardinality(found),
                       !.returned = [content |-> f.svg_content, prefix |-> f.prefix,
                                     stats |-> [ids_found |-> Cardinality(found),
                                                references_updated |-> 0,
                                                errors |-> {}],
                                     errors |-> {}]]
        ELSE [f EXCEPT !.pc = "pass", !.ids_found = Cardinality(found),
                       !.ids_to_prefix = to_prefix,
                       !.id_map = id_map(to_prefix, f.prefix),
                       !.ref_count = 0, !.result = f.svg_content, !.pass = 1])))

\* as after_pass, with one ref_count for all invocations, kept in the frame
\* of the first
after_pass_shared(frames, w) ==
    Bind(frames[w], LAMBDA f :
    Bind(ReSub(Passes[f.pass], f.id_map, f.result), LAMBDA r :
        [f EXCEPT !.result = r.text,
                  !.ref_count = frames[1].ref_count + r.n,
                  !.pass = f.pass + 1,
                  !.pc = IF f.pass = Len(Passes) THEN "verify" ELSE "pass"]))

\* one of the ten re.sub statements (lines 103-251) in the frame of
\* invocation w
after_pass(frames, w) ==
    Bind(frames[w], LAMBDA f :
    Bind(ReSub(Passes[f.pass], f.id_map, f.result), LAMBDA r :
        [f EXCEPT !.result = r.text,
                  !.ref_count = f.ref_count + r.n,
                  !.pass = f.pass + 1,
                  !.pc = IF f.pass = Len(Passes) THEN "verify" ELSE "pass"]))

\* lines 253-290 in the frame of invocation w: the count, the verification
\* and the return
after_verify(frames, w) ==
    Bind(frames[w], LAMBDA f :
    Bind(Verify(f.result, f.ids_to_prefix), LAMBDA errors :
        [f EXCEPT !.pc = "done",
                  !.returned = [content |-> f.result, prefix |-> f.prefix,
                                stats |-> [ids_found |-> f.ids_found,
                                           references_updated |-> f.ref_count,
                                           errors |-> errors],
                                errors |-> errors]]))

\* the caller starts the invocations, document w with the prefix of index w - 1
StartWorkers ==
    /\ op = "none"
    /\ \E docs \in [Workers -> WorkerDocs] :
          /\ frags' = docs
          /\ args' = [w \in Workers |->
                         [svg_content |-> DocText(docs[w]),
                          prefix |-> index_to_prefix(w - 1), verify |-> TRUE]]
          /\ out' = [w \in Workers |->
                        NewFrame(DocText(docs[w]), index_to_prefix(w - 1))]
    /\ op' = "workers"
    /\ UNCHANGED <<prev, assigned>>

BuildTable(w) ==
    /\ op = "workers" /\ out[w].pc = "table"
    /\ out' = [out EXCEPT ![w] = after_table(out, w)]
    /\ UNCHANGED <<op, args, prev, frags, assigned>>

RewritePass(w) ==
    /\ op = "workers" /\ out[w].pc = "pass"
    /\ out' = [out EXCEPT ![w] = after_pass(out, w)]
    /\ UNCHANGED <<op, args, prev, frags, assigned>>

VerifyResult(w) ==
    /\ op = "workers" /\ out[w].pc = "verify"
    /\ out' = [out EXCEPT ![w] = after_verify(out, w)]
    /\ UNCHANGED <<op, args, prev, frags, assigned>>

\* the composer joins the strings of the finished invocations
JoinFinished ==
    /\ op = "workers"
    /\ \A w \in Workers : out[w].pc = "done"
    /\ prev' = Returned(Join([w \in Workers |-> out[w].returned.content], <<"\n">>))
    /\ op' = "joined"
    /\ UNCHANGED <<args, out, frags, assigned>>

NextWorkers ==
    \/ StartWorkers
    \/ \E w \in Workers : BuildTable(w)
    \/ \E w \in Workers : RewritePass(w)
    \/ \E w \in Workers : VerifyResult(w)
    \/ JoinFinished

SpecWorkers == Init /\ [][NextWorkers]_vars

------------------------------------------------------------------------------
(* The grid helpers of svg_id_prefixer (specification SpecTiling).         *)

\* the loop of tile_svgs_grid from iteration k (enumerate index k - 1) on
RECURSIVE tile_svgs_grid_from(_, _, _, _, _, _)
tile_svgs_grid_from(svg_contents, columns, cell_width, cell_height, padding, k) ==
    IF k > Len(svg_contents) THEN <<>>
    ELSE Bind((k - 1) % columns, LAMBDA col :
         Bind((k - 1) \div columns, LAMBDA row :
              <<<<svg_contents[k][1], svg_contents[k][2],
                  NumMul(IntNum(col), NumAdd(cell_width, padding)),
                  NumMul(IntNum(row), NumAdd(cell_height, padding))>>>>
              \o tile_svgs_grid_from(svg_contents, columns, cell_width, cell_height,
                                     padding, k + 1)))

\* tile_svgs_grid(svg_contents, columns, cell_width, cell_height, padding)
tile_svgs_grid(svg_contents, columns, cell_width, cell_height, padding) ==
    tile_svgs_grid_from(svg_contents, columns, cell_width, cell_height, padding, 1)

\* the sizes of a cell and the paddings of the callers: whole numbers, zero,
\* and halves
TilingCells ==
    { <<IntNum(400), IntNum(300)>>, <<FloatNum(201, 2), FloatNum(151, 2)>>,
      <<IntNum(0), IntNum(0)>> }

TilingPaddings == { IntNum(0), IntNum(10), FloatNum(5, 2) }

\* tile_svgs_grid on count tuples
TileSvgsGrid ==
    /\ op = "none"
    /\ \E count \in 0..MaxCount, columns \in GridColumns,
          cell \in TilingCells, padding \in TilingPaddings :
          \E svg_contents \in {[k \in 1..count |->
                                   <<GridFiles[GridPathOrder[((k - 1) % 3) + 1]], str(k)>>]} :
              /\ args' = [svg_contents |-> svg_contents, count |-> count,
                          columns |-> columns, cell_width |-> cell[1],
                          cell_height |-> cell[2], padding |-> padding]
              /\ out' = Returned(tile_svgs_grid(svg_contents, columns, cell[1],
                                                cell[2], padding))
    /\ op' = "tile_svgs_grid"
    /\ UNCHANGED <<prev, frags, assigned>>

\* calculate_grid_container_size for the grid tile_svgs_grid laid out
SizeOfTiling ==
    /\ op = "tile_svgs_grid"
    /\ prev' = out
    /\ out' = Returned(calculate_grid_container_size(
                           args.count, args.columns, args.cell_width,
                           args.cell_height, args.padding))
    /\ op' = "grid_sized"
    /\ UNCHANGED <<args, frags, assigned>>

NextTiling ==
    \/ TileSvgsGrid
    \/ SizeOfTiling

SpecTiling == Init /\ [][NextTiling]_vars

------------------------------------------------------------------------------
(* The grids on a background whose viewBox starts away from the origin     *)
(* (specification SpecRegion).                                             *)

PathShifted ==
    <<"s", "h", "i", "f", "t", "e", "d", ".", "s", "v", "g">>

TextShifted ==
    <<"<", "s", "v", "g", " ", "v", "i", "e", "w", "B", "o", "x", "=",
      "\"", "1", "0", "0", " ", "5", "0", " ", "8", "0", "0", " ", "6",
      "0", "0", "\"", ">", "<", "r", "e", "c", "t", " ", "i", "d", "=",
      "\"", "r", "\"", "/", ">", "<", "/", "s", "v", "g", ">">>

\* the files of the grid and the background of 800 by 600 at (100, 50)
RegionFiles ==
    GridFiles @@ [path \in {PathShifted} |-> TextShifted]

\* the containers: two of the caller, and three backgrounds
RegionContainers ==
    {[background_svg_path |-> NoPath, container_width |-> IntNum(wh[1]),
      container_height |-> IntNum(wh[2])] : wh \in {<<1920, 1080>>, <<1200, 1200>>}}
    \cup {[background_svg_path |-> p, container_width |-> IntNum(1920),
           container_height |-> IntNum(1080)] : p \in {PathPlain, PathStage, PathShifted}}

RegionOptions ==
    {OptionsWith([rows |-> r, columns |-> c, preserve_aspect_ratio |-> aspect] @@ cont) :
        r \in GridRows, c \in GridColumns, cont \in RegionContainers,
        aspect \in BOOLEAN}

\* create_grid_composite on the containers of RegionContainers
CreateGridOnRegion ==
    CreateGridCompositeOf({[k \in 1..n |-> GridPathOrder[((k - 1) % 3) + 1]] :
                              n \in 1..MaxGridTiles},
                          RegionFiles, GridTiles, RegionOptions)

NextRegion == CreateGridOnRegion

SpecRegion == Init /\ [][NextRegion]_vars

------------------------------------------------------------------------------
(* Properties of the rewrite call (specification Spec).                    *)

\* the rewrite call has returned
Rewritten == op = "prefix_svg_ids"

\* the identifiers the document of the call declares, and its table keys
Declared == original_ids(args.svg_content)
Table    == ids_to_prefix(Declared, args.prefix)

\* an element of the document as written, and with its identifier prefixed
Original(f) == ElementText(f.t, f.id, f.id)
Renamed(f)  == ElementText(f.t, args.prefix \o f.id, f.id)

\* the texts that differ from the document in prefixed identifiers only
RECURSIVE Variants(_)
Variants(fs) ==
    IF fs = <<>> THEN {<<>>}
    ELSE {h \o t : h \in {Original(fs[1]), Renamed(fs[1])}, t \in Variants(Tail(fs))}

\* C1: rewriting the content the call returned, with the same non-empty
\* prefix, returns that content unchanged and counts no rename.
C1_Idempotent ==
    (op = "prefix_again" /\ args.prefix # <<>>) =>
        /\ out.value.content = prev.value.content
        /\ out.value.stats.references_updated = 0

\* C2: every well-formed surface of the document that holds a tabled
\* identifier holds the prefixed identifier in the output, and the surface
\* with the bare identifier is gone.
C2_Complete ==
    Rewritten =>
        \A k \in 1..Len(frags) :
            (frags[k].t # "decl_mq" /\ frags[k].id \in Table) =>
                /\ Contains(out.value.content, Renamed(frags[k]))
                /\ ~Contains(out.value.content, Original(frags[k]))

\* C3: every element that holds an identifier outside the table is in the
\* output as it was written, and the output differs from the input in
\* prefixed identifiers only.
C3_NonInterference ==
    Rewritten =>
        /\ \A k \in 1..Len(frags) :
              frags[k].id \notin Table =>
                  Contains(out.value.content, Original(frags[k]))
        /\ out.value.content \in Variants(frags)

\* the document of scenario A: one well-formed declaration of r, one
\* href="#r", verification on, a prefix r does not start with
ScenarioA ==
    /\ Rewritten /\ args.verify
    /\ Len(frags) = 2
    /\ frags[1].t \in {"decl", "decl_sq"}
    /\ frags[2] = [t |-> "href", id |-> frags[1].id]
    /\ ~StartsWith(frags[1].id, args.prefix)

\* C6: in scenario A the output holds the declaration and the reference with
\* the prefixed identifier, and the error list is empty.
C6_ScenarioA ==
    ScenarioA =>
        /\ Contains(out.value.content, Renamed(frags[1]))
        /\ Contains(out.value.content,
                    LitHref \o <<"=", "\"", "#">> \o args.prefix \o frags[1].id \o <<"\"">>)
        /\ out.value.errors = {}

C6_Witness ==
    /\ ScenarioA
    /\ frags[1] = [t |-> "decl", id |-> IdX]
    /\ args.prefix = <<"q", "_">>
    /\ out.value.stats.references_updated = 2

\* the prefixes the claim wants rejected: the empty one, and one a declared
\* identifier carries already
Carried == {id_val \in Declared : StartsWith(id_val, args.prefix)}

\* C7 as stated: the call reports an error for an empty prefix and for a
\* prefix a declared identifier carries already.
C7_PrefixRejected ==
    (Rewritten /\ (args.prefix = <<>> \/ Carried # {})) =>
        (out.raised \/ out.value.errors # {})

\* C7 amended: the call accepts every prefix and reports no error for it.
\* When every declared identifier carries the prefix, as with the empty
\* prefix, nothing is scheduled and the input comes back unchanged with zero
\* renames and no error; otherwise the identifiers that carry the prefix are
\* left out of the table and no error names them.
C7_PrefixAccepted ==
    Rewritten =>
        /\ ~out.raised
        /\ out.value.prefix = args.prefix
        /\ Carried = Declared =>
              /\ out.value.content = args.svg_content
              /\ out.value.stats.references_updated = 0
              /\ out.value.errors = {}
        /\ \A e \in out.value.errors : e[2] \notin Carried

C7_Witness ==
    /\ Rewritten /\ args.prefix = <<>>
    /\ Len(frags) = 2
    /\ frags[1] = [t |-> "decl", id |-> IdX]
    /\ frags[2] = [t |-> "href", id |-> IdX]
    /\ out.value.content = args.svg_content
    /\ out.value.errors = {}

\* C10: the rewrite call returns, whatever the verifier finds: the prefix
\* used, one error list under both keys, the content it returns with
\* verification off, and no error when verification is off.
C10_VerifyNonFatal ==
    op \in {"prefix_svg_ids", "prefix_again"} =>
        /\ ~out.raised
        /\ out.value.prefix = args.prefix
        /\ out.value.stats.errors = out.value.errors
        /\ ~args.verify => out.value.errors = {}
        /\ Rewritten =>
              out.value.content =
                  prefix_svg_ids(args.svg_content, args.prefix, ~args.verify).content

C10_Witness ==
    /\ Rewritten /\ args.verify
    /\ out.value.errors # {}
    /\ out.value.content # args.svg_content
    /\ out.value.stats.references_updated > 0

\* C11: when no declared identifier is left to rename (none is declared, or
\* each one starts with the prefix), the call returns the text it was given,
\* zero renames and no error under either key, whatever reference surfaces
\* the text holds; this also holds for the second rewrite of a result.
C11_NothingToRename ==
    (op \in {"prefix_svg_ids", "prefix_again"} /\ Carried = Declared) =>
        /\ out.value.content = args.svg_content
        /\ out.value.stats.ids_found = Cardinality(Declared)
        /\ out.value.stats.references_updated = 0
        /\ out.value.errors = {}
        /\ out.value.stats.errors = {}

C11_Witness ==
    /\ Rewritten
    /\ args.prefix = <<"q", "_">>
    /\ frags = <<[t |-> "url", id |-> IdX]>>
    /\ out.value.content = ElementText("url", IdX, IdX)
    /\ out.value.stats.ids_found = 0

\* the identifiers the error list names as declarations that remain
DeclErrors ==
    {e[2] : e \in {x \in out.value.errors : x[1] = "Unprefixed ID declaration remains"}}

\* the scheduled identifiers of the document with a declaration no pass
\* renames: one whose closing quote is not its opening quote
Unrenamed ==
    {frags[k].id : k \in {j \in 1..Len(frags) :
                              /\ frags[j].t = "decl_mq"
                              /\ ~StartsWith(frags[j].id, args.prefix)}}

\* C20: with verify on, the error list names as remaining declarations
\* exactly the scheduled identifiers a declaration of which is still bare in
\* the rewritten text.
C20_ExhaustiveDeclCheck ==
    (Rewritten /\ args.verify) =>
        /\ DeclErrors = Unrenamed
        /\ \A k \in 1..Len(frags) :
              (frags[k].t = "decl_mq" /\ frags[k].id \in Unrenamed)
                  => Contains(out.value.content, Original(frags[k]))
        /\ \A k \in 1..Len(frags) :
              (frags[k].t \in {"decl", "decl_sq"} /\ frags[k].id \in Table)
                  => ~Contains(out.value.content, Original(frags[k]))

C20_Witness ==
    /\ Rewritten /\ args.verify
    /\ args.prefix = <<"q", "_">>
    /\ frags = <<[t |-> "decl", id |-> Id2X], [t |-> "decl_mq", id |-> IdX]>>
    /\ DeclErrors = {IdX}
    /\ out.value.stats.references_updated = 1

------------------------------------------------------------------------------
(* Properties of the composing calls (specification SpecCombine).          *)

Combined == op = "combine_svgs_with_prefixes"

\* the document elts declares s between matching quotes
DeclaresWell(elts, s) ==
    \E k \in 1..Len(elts) : elts[k].t \in {"decl", "decl_sq"} /\ elts[k].id = s

\* the verifier reports on the document elts: a declaration it cannot rename
Misquoted(elts) == \E k \in 1..Len(elts) : elts[k].t = "decl_mq"

\* the number of places of text where s is declared
DeclCount(text, s) ==
    Cardinality({i \in 1..Len(text) :
                    IdPatternAt(text, i).ok /\ IdPatternAt(text, i).id = s})

PrefixA == <<"a", "_">>
PrefixB == <<"b", "_">>

\* the references of document k of the list point to s under the prefix p
RefersTo(k, s, p) ==
    \A e \in 1..Len(frags[k].doc) :
        (frags[k].doc[e].t \in RefKinds /\ frags[k].doc[e].id = s) =>
            /\ Contains(out.value.content, ElementText(frags[k].doc[e].t, p \o s, s))
            /\ ~Contains(out.value.content, ElementText(frags[k].doc[e].t, s, s))

\* C4: two composed documents that each declare s give one document where s
\* is declared once as a_s and once as b_s and never bare, and the references
\* of each document point to its own renamed declaration.
C4_RoundTrip ==
    (Combined /\ Len(frags) = 2 /\ \A k \in 1..2 : frags[k].shape # "triple") =>
        \A s \in Ids :
            (DeclaresWell(frags[1].doc, s) /\ DeclaresWell(frags[2].doc, s)) =>
                /\ ~out.raised
                /\ DeclCount(out.value.content, PrefixA \o s) = 1
                /\ DeclCount(out.value.content, PrefixB \o s) = 1
                /\ DeclCount(out.value.content, s) = 0
                /\ RefersTo(1, s, PrefixA)
                /\ RefersTo(2, s, PrefixB)

\* the position of a lower-case letter in the alphabet, from 1
LetterNumber(c) == CHOOSE k \in 1..26 : ascii_lowercase[k] = c

\* the number of a spreadsheet column: a is 1, z is 26, aa is 27
RECURSIVE ColumnNumber(_)
ColumnNumber(letters) ==
    IF letters = <<>> THEN 0
    ELSE ColumnNumber(SubSeq(letters, 1, Len(letters) - 1)) * 26
         + LetterNumber(letters[Len(letters)])

\* p is the column name of index + 1, followed by an underscore
IsColumnPrefix(p, index) ==
    /\ Len(p) >= 2
    /\ p[Len(p)] = "_"
    /\ \A k \in 1..(Len(p) - 1) : p[k] \in Lower
    /\ ColumnNumber(SubSeq(p, 1, Len(p) - 1)) = index + 1

\* C5: _index_to_prefix gives the spreadsheet column name of the index, a_
\* for 0, z_ for 25, aa_ for 26, and no other index of the range gives the
\* same prefix; the composing loop assigns document k the prefix of its
\* position, so that no two documents of a batch have the same prefix.
C5_PrefixAllocation ==
    /\ op = "_index_to_prefix" =>
          /\ IsColumnPrefix(out.value, args.index)
          /\ args.index = 0 => out.value = <<"a", "_">>
          /\ args.index = 25 => out.value = <<"z", "_">>
          /\ args.index = 26 => out.value = <<"a", "a", "_">>
          /\ \A j \in 0..MaxIndex :
                j # args.index => index_to_prefix(j) # out.value
    /\ Combined =>
          /\ \A i \in DOMAIN assigned : IsColumnPrefix(assigned[i], i - 1)
          /\ \A i, j \in DOMAIN assigned : i # j => assigned[i] # assigned[j]

C5_Witness ==
    /\ op = "_index_to_prefix"
    /\ args.index = 702
    /\ out.value = <<"a", "a", "a", "_">>

C9_BadArityFailsCall ==
    (Combined /\ \E k \in 1..Len(args.svg_contents) :
                     Len(args.svg_contents[k]) \notin {2, 4}) =>
        /\ out.raised
        /\ out.exc.type = "ValueError"
        /\ "value" \notin DOMAIN out

C9_Witness ==
    /\ Combined
    /\ Len(args.svg_contents) = 2
    /\ Len(args.svg_contents[1]) = 2 /\ ~Misquoted(frags[1].doc)
    /\ Len(args.svg_contents[2]) = 3
    /\ out.raised
    /\ out.exc.msg = "Invalid tuple format: expected 2 or 4 elements, got"
    /\ out.exc.detail = 3

\* C12: a call with no tile fails with an error and gives no document, in the
\* grid as in the composition.
C12_ZeroTilesRejected ==
    /\ (op = "create_grid_composite" /\ args.tile_paths = <<>>) =>
          (out.raised /\ "value" \notin DOMAIN out)
    /\ (Combined /\ args.svg_contents = <<>>) =>
          (out.raised /\ "value" \notin DOMAIN out)

------------------------------------------------------------------------------
(* Properties of the grid calls (specification SpecGrid).                  *)

\* create_grid_composite has returned a document
Gridded == op = "create_grid_composite" /\ ~out.raised

\* the indexes (from 0) of the tiles the loop has placed
PlacedIndexes == {out.value.cells[c].index : c \in 1..Len(out.value.cells)}

\* the prefix of tile i
TilePrefix(i) == <<"t">> \o str(i) \o <<"_">>

\* the places of text where lit stands
Occurrences(text, lit) ==
    {p \in 1..(Len(text) - Len(lit) + 1) : text[p] = lit[1] /\ IsAt(text, p, lit)}

\* the largest element of a non-empty set of numbers
Max(S) == CHOOSE x \in S : \A y \in S : y <= x

\* the number the first attribute name (with its opening quote) at or after
\* position p of text states
AttrAfter(text, p, name) ==
    LET a == Min({q \in p..(p + 80) : IsAt(text, q, name)}) + Len(name)
    IN  ParseFloat(SubSeq(text, a, RunNotIn(text, a, Quote) - 1)).value

\* the numbers of the viewBox attribute at position q of text
ViewBoxNumbers(text, q) ==
    LET parts == ViewBoxAt(text, q).parts
    IN  [k \in 1..Len(parts) |-> ParseFloat(parts[k]).value]

TextIdGridClip ==
    <<" ", "i", "d", "=", "\"", "g", "r", "i", "d", "_", "c", "l", "i",
      "p", "_">>

TextClipPath ==
    <<"<", "c", "l", "i", "p", "P", "a", "t", "h">>

TextUrlGridClip ==
    <<"u", "r", "l", "(", "#", "g", "r", "i", "d", "_", "c", "l", "i", "p",
      "_">>

TextGroupClipPath ==
    <<"<", "g", " ", "c", "l", "i", "p", "-", "p", "a", "t", "h", "=",
      "\"">>

TextViewBox ==
    <<"v", "i", "e", "w", "B", "o", "x", "=", "\"">>

TextX ==
    <<" ", "x", "=", "\"">>

TextY ==
    <<" ", "y", "=", "\"">>

TextWidth ==
    <<" ", "w", "i", "d", "t", "h", "=", "\"">>

TextHeight ==
    <<" ", "h", "e", "i", "g", "h", "t", "=", "\"">>

\* x, y, w, h are the numbers the file of tile i states
SourceViewBox(i, x, y, w, h) ==
    /\ NumEq(x, IntNum(frags[i + 1].x)) /\ NumEq(y, IntNum(frags[i + 1].y))
    /\ NumEq(w, IntNum(frags[i + 1].w)) /\ NumEq(h, IntNum(frags[i + 1].h))

\* the places among ps (each the place of a text of length n) that the
\* number i and the text close follow
Numbered(text, ps, n, i, close) == {p \in ps : IsAt(text, p + n, str(i) \o close)}

\* the clipPath of tile i in text: ids the places of the declarations of a
\* grid_clip identifier, refs the places of the references to one, vbs the
\* places of the viewBox attributes
ClipOfTile(text, ids, refs, vbs, i) ==
    LET decl == Numbered(text, ids, Len(TextIdGridClip), i, <<"\"", ">">>)
        ref  == Numbered(text, refs, Len(TextUrlGridClip), i, <<")", "\"", ">", "\n">>)
    IN  /\ Cardinality(decl) = 1
        /\ Cardinality(ref) = 1
        /\ \E d \in decl, r \in ref :
              /\ IsAt(text, d - Len(TextClipPath), TextClipPath)
              /\ IsAt(text, r - Len(TextGroupClipPath), TextGroupClipPath)
              /\ d < r
              /\ \A e \in ids : e > d => r < e
              /\ IsAt(text, r + Len(TextUrlGridClip) + Len(str(i)) + 4,
                      ElementText("decl", TilePrefix(i) \o frags[i + 1].body[1].id, <<>>))
              /\ SourceViewBox(i, AttrAfter(text, d, TextX), AttrAfter(text, d, TextY),
                                  AttrAfter(text, d, TextWidth),
                                  AttrAfter(text, d, TextHeight))
              /\ \E q \in {Max({v \in vbs : v < d})} :
                    /\ \A e \in ids : e < d => e < q
                    /\ Len(ViewBoxNumbers(text, q)) = 4
                    /\ SourceViewBox(i, ViewBoxNumbers(text, q)[1],
                                        ViewBoxNumbers(text, q)[2],
                                        ViewBoxNumbers(text, q)[3],
                                        ViewBoxNumbers(text, q)[4])

\* C13: every placed tile stands in the document as a nested svg whose
\* viewBox is the viewBox of its file, its content in a group that refers to
\* a clipPath whose rect has that x, y, width and height; the document
\* declares the clipPath identifier of a placed tile once and refers to it
\* once, in the group of that tile, so that no two tiles share a clipPath.
C13_ClipPerTile ==
    Gridded =>
        \E ids \in {Occurrences(out.value.content, TextIdGridClip)},
           refs \in {Occurrences(out.value.content, TextUrlGridClip)},
           vbs \in {Occurrences(out.value.content, TextViewBox)} :
            /\ Cardinality(ids) = Cardinality(PlacedIndexes)
            /\ Cardinality(refs) = Cardinality(PlacedIndexes)
            /\ \A i \in PlacedIndexes :
                  ClipOfTile(out.value.content, ids, refs, vbs, i)

\* three tiles placed on a background, the first with a viewBox away from
\* the origin, the third without a viewBox, each with its own clipPath
C13_Witness ==
    /\ Gridded
    /\ args.o.background_svg_path = PathPlain
    /\ PlacedIndexes = {0, 1, 2}
    /\ frags[1].x = 10 /\ frags[1].y = -20 /\ ~frags[3].has_viewbox
    /\ Cardinality(Occurrences(out.value.content, TextIdGridClip)) = 3
    /\ \E d \in Occurrences(out.value.content, TextIdGridClip \o <<"0", "\"">>) :
          NumEq(AttrAfter(out.value.content, d, TextY), IntNum(-20))
    /\ \E d \in Occurrences(out.value.content, TextIdGridClip \o <<"2", "\"">>) :
          NumEq(AttrAfter(out.value.content, d, TextHeight), IntNum(80))

TextAnchorTag ==
    <<"<", "g", " ", "i", "d", "=", "\"", "S", "T", "A", "G", "E", "_",
      "B", "A", "C", "K", "G", "R", "O", "U", "N", "D", "\"", ">">>

TextAnchorTagRenamed ==
    <<"<", "g", " ", "i", "d", "=", "\"", "b", "g", "_", "S", "T", "A",
      "G", "E", "_", "B", "A", "C", "K", "G", "R", "O", "U", "N", "D",
      "\"", ">">>

TextBackgroundRect ==
    <<"<", "r", "e", "c", "t", " ", "i", "d", "=", "\"", "b", "g", "_",
      "r", "\"", "/", ">">>

\* the call had a background
OnBackground == Gridded /\ args.o.background_svg_path # NoPath

\* the first tile stands right after the opening tag of the anchor group,
\* under the name the file gives the group or under its name with bg_
InsideAnchor ==
    \E tag \in {TextAnchorTag, TextAnchorTagRenamed} :
        Contains(out.value.content, tag \o <<"\n">> \o LitTileComment)

\* the tiles stand after the elements of the background, and the closing tag
\* of the background ends the document
BeforeClosingTag ==
    /\ IsAt(out.value.content, Len(out.value.content) - Len(LitSvgEnd) + 1, LitSvgEnd)
    /\ \A p \in Occurrences(out.value.content, LitTileComment),
          q \in Occurrences(out.value.content, TextBackgroundRect) : q < p

\* the cells are those of a container of 800 by 600, the viewBox of every
\* background of the model
LaidOutInBackground ==
    /\ NumEq(out.value.cont_width, IntNum(800))
    /\ NumEq(out.value.cont_height, IntNum(600))
    /\ NumEq(NumMul(out.value.calc_cell_width, IntNum(args.o.columns)),
             IntNum(800 - 20 * (args.o.columns + 1)))

\* C14: with a background the grid is laid out in the width and height of
\* the viewBox of the background; when the background has a group with the
\* identifier STAGE_BACKGROUND the tiles stand inside that group, right after
\* its opening tag, and when it has no such group they stand before the
\* closing tag of the background.
C14_AnchorInsertion ==
    (OnBackground /\ PlacedIndexes # {}) =>
        /\ LaidOutInBackground
        /\ args.o.background_svg_path = PathStage => InsideAnchor
        /\ args.o.background_svg_path = PathPlain => (BeforeClosingTag /\ ~InsideAnchor)

\* C15: when the caller gives cell_width and cell_height and no rows, every
\* cell has the width and height given, and the tiles are scaled and placed
\* against them.
C15_FixedCellSize ==
    (Gridded /\ args.o.cell_width # None /\ args.o.cell_height # None
             /\ args.o.rows = None) =>
        /\ NumEq(out.value.calc_cell_width, args.o.cell_width)
        /\ NumEq(out.value.calc_cell_height, args.o.cell_height)
        /\ \A c \in 1..Len(out.value.cells) :
              /\ NumEq(out.value.cells[c].cell_x,
                       NumAdd(args.o.margin,
                              NumMul(IntNum(out.value.cells[c].col),
                                     NumAdd(args.o.cell_width, args.o.margin))))
              /\ NumLe(out.value.cells[c].scaled_w, args.o.cell_width)
              /\ NumLe(out.value.cells[c].scaled_h, args.o.cell_height)
              /\ ~args.o.preserve_aspect_ratio =>
                    /\ NumEq(out.value.cells[c].scaled_w, args.o.cell_width)
                    /\ NumEq(out.value.cells[c].scaled_h, args.o.cell_height)

\* the rows of the grid of the call: those of the caller, or as many as the
\* tiles need
RowsOfCall ==
    IF args.o.rows # None THEN args.o.rows.n
    ELSE (Len(args.tile_paths) + args.o.columns - 1) \div args.o.columns

\* the indexes of the tiles whose row is beyond the grid, in order
RECURSIVE BeyondGrid(_)
BeyondGrid(i) ==
    IF i >= Len(args.tile_paths) THEN <<>>
    ELSE IF i \div args.o.columns >= RowsOfCall THEN <<i>> \o BeyondGrid(i + 1)
    ELSE BeyondGrid(i + 1)

\* C16: in a grid of R rows and C columns (R >= 1, C >= 1) tile i is placed
\* iff i // C < R; a tile that is not placed is not in the document, and the
\* call writes one warning with its name for it, in order; min(N, R*C) tiles
\* are placed; the call returns, and the cells of the placed tiles are those
\* of the call without the tiles that are skipped.
C16_SkippedTilesTraced ==
    (op = "create_grid_composite" /\ args.tile_paths # <<>>) =>
        /\ ~out.raised
        /\ PlacedIndexes = {i \in 0..(Len(args.tile_paths) - 1) :
                               i \div args.o.columns < RowsOfCall}
        /\ Cardinality(PlacedIndexes) =
              (IF Len(args.tile_paths) < RowsOfCall * args.o.columns
               THEN Len(args.tile_paths) ELSE RowsOfCall * args.o.columns)
        /\ Len(out.value.skipped) = Len(BeyondGrid(0))
        /\ \A k \in 1..Len(out.value.skipped) :
              args.tile_paths[BeyondGrid(0)[k] + 1]
                  = out.value.skipped[k] \o <<".", "s", "v", "g">>
        /\ Cardinality(Occurrences(out.value.content, LitTileComment))
              = Cardinality(PlacedIndexes)
        /\ \A i \in 0..(Len(args.tile_paths) - 1) :
              i \notin PlacedIndexes =>
                  Occurrences(out.value.content,
                              TextIdGridClip \o str(i) \o <<"\"">>) = {}
        /\ BeyondGrid(0) # <<>> =>
              out.value.cells =
                  create_grid_composite(
                      SubSeq(args.tile_paths, 1, Cardinality(PlacedIndexes)),
                      GridFiles, [args.o EXCEPT !.rows = IntNum(RowsOfCall)]).value.cells

\* five tiles in a grid of one row and two columns: two placed, three
\* skipped with a warning each
C16_Witness ==
    /\ Gridded
    /\ Len(args.tile_paths) = 5
    /\ args.o.rows = IntNum(1) /\ args.o.columns = 2
    /\ PlacedIndexes = {0, 1}
    /\ out.value.skipped = << <<"t", "a", "l", "l">>, <<"w", "i", "d", "e">>,
                              <<"f", "u", "l", "l">> >>

\* the least number of rows of c columns that hold n tiles
Ceiling(n, c) == CHOOSE r \in 0..n : r * c >= n /\ (r = 0 \/ (r - 1) * c < n)

\* C17: without rows from the caller the grid has ceiling(N / columns) rows
\* for N >= 1 tiles and columns >= 1 (2 rows for 5 tiles in 3 columns), so
\* that every tile has a row of the grid and none is skipped;
\* calculate_grid_container_size counts its rows in the same way.
C17_AutoRows ==
    /\ (Gridded /\ args.o.rows = None) =>
          /\ out.value.rows = Ceiling(Len(args.tile_paths), args.o.columns)
          /\ (Len(args.tile_paths) = 5 /\ args.o.columns = 3) => out.value.rows = 2
          /\ \A i \in 0..(Len(args.tile_paths) - 1) :
                i \div args.o.columns < out.value.rows
          /\ out.value.skipped = <<>>
          /\ PlacedIndexes = 0..(Len(args.tile_paths) - 1)
    /\ (op = "calculate_grid_container_size" /\ args.count >= 1) =>
          /\ out.value.rows = Ceiling(args.count, args.columns)
          /\ NumEq(out.value.height,
                   IntNum(Ceiling(args.count, args.columns) * 300
                          + (Ceiling(args.count, args.columns) - 1) * 10))

\* five tiles in three columns: two rows, every tile placed
C17_Witness ==
    /\ Gridded
    /\ args.o.rows = None /\ args.o.columns = 3
    /\ Len(args.tile_paths) = 5
    /\ out.value.rows = 2
    /\ Len(out.value.cells) = 5
    /\ out.value.cells[5].row = 1 /\ out.value.cells[5].col = 1

TextSvgX ==
    <<"<", "s", "v", "g", " ", "x", "=", "\"">>

\* the places of the nested svg elements of the document, in order
RECURSIVE Sorted(_)
Sorted(S) == IF S = {} THEN <<>> ELSE <<Min(S)>> \o Sorted(S \ {Min(S)})

\* the number a of the document is the number b to two decimals
TwoDecimals(a, b) ==
    /\ NumLe(NumSub(a, b), FloatNum(1, 200))
    /\ NumLe(NumSub(b, a), FloatNum(1, 200))

\* the nested svg at place p of text has the position (x, y) and the size
\* (w, h), to two decimals
NestedSvg(text, p, x, y, w, h) ==
    /\ TwoDecimals(AttrAfter(text, p, TextSvgX), x)
    /\ TwoDecimals(AttrAfter(text, p, TextY), y)
    /\ TwoDecimals(AttrAfter(text, p, TextWidth), w)
    /\ TwoDecimals(AttrAfter(text, p, TextHeight), h)

\* the tile of cell c, of viewBox size (w, h), in the cell of size (cw, ch)
\* at (cell_x, cell_y), and its nested svg at place p of the document
FitsCell(c, p, w, h, cw, ch) ==
    LET sw == out.value.cells[c].scaled_w
        sh == out.value.cells[c].scaled_h
        s  == NumMin(NumDiv(cw, w), NumDiv(ch, h))
    IN  IF args.o.preserve_aspect_ratio
        THEN /\ NumEq(sw, NumMul(s, w)) /\ NumEq(sh, NumMul(s, h))
             /\ NumEq(out.value.cells[c].scale, s)
             /\ NumLe(sw, cw) /\ NumLe(sh, ch)
             /\ NumEq(sw, cw) \/ NumEq(sh, ch)
             /\ NumEq(out.value.cells[c].offset_x, NumDiv(NumSub(cw, sw), IntNum(2)))
             /\ NumEq(out.value.cells[c].offset_y, NumDiv(NumSub(ch, sh), IntNum(2)))
             /\ (NumEq(w, NumMul(IntNum(2), h)) /\ NumEq(cw, ch)) =>
                    /\ NumEq(sw, cw)
                    /\ NumEq(sh, NumDiv(cw, IntNum(2)))
                    /\ NumEq(out.value.cells[c].offset_x, IntNum(0))
                    /\ NumEq(out.value.cells[c].offset_y, NumDiv(cw, IntNum(4)))
             /\ NestedSvg(out.value.content, p,
                          NumAdd(out.value.cells[c].cell_x, NumDiv(NumSub(cw, sw), IntNum(2))),
                          NumAdd(out.value.cells[c].cell_y, NumDiv(NumSub(ch, sh), IntNum(2))),
                          NumMul(s, w), NumMul(s, h))
        ELSE /\ NumEq(sw, cw) /\ NumEq(sh, ch)
             /\ NumEq(out.value.cells[c].offset_x, IntNum(0))
             /\ NumEq(out.value.cells[c].offset_y, IntNum(0))
             /\ NestedSvg(out.value.content, p, out.value.cells[c].cell_x,
                          out.value.cells[c].cell_y, cw, ch)

\* C18: with aspect preservation a tile of viewBox size (w, h), w > 0 and
\* h > 0, in a cell of size (cw, ch) has the size (s*w, s*h) for the one
\* factor s = min(cw/w, ch/h), within the cell and equal to it on one axis at
\* least, at the offset ((cw - s*w)/2, (ch - s*h)/2) in the cell; a tile twice
\* as wide as high in a square cell of side c has the size c by c/2 and the
\* offset (0, c/4).  Without aspect preservation the size is (cw, ch) and the
\* offset zero.  The nested svg of the document states that position and
\* size to two decimals.
C18_AspectFit ==
    Gridded =>
        \E places \in {Sorted(Occurrences(out.value.content, TextSvgX))} :
            /\ Len(places) = Len(out.value.cells)
            /\ \A c \in 1..Len(out.value.cells) :
                  FitsCell(c, places[c],
                           IntNum(frags[out.value.cells[c].index + 1].w),
                           IntNum(frags[out.value.cells[c].index + 1].h),
                           out.value.calc_cell_width, out.value.calc_cell_height)

\* a tile of 200 by 100 in the one cell of a container of 1200 by 1200: the
\* cell has a side of 1160, the tile 1160 by 580 at 290 below the cell
C18_Witness ==
    /\ Gridded
    /\ args.tile_paths = <<PathWide>>
    /\ args.o.preserve_aspect_ratio /\ ~args.o.show_labels
    /\ args.o.background_svg_path = NoPath
    /\ NumEq(out.value.calc_cell_width, IntNum(1160))
    /\ NumEq(out.value.calc_cell_height, IntNum(1160))
    /\ NumEq(out.value.cells[1].scaled_h, IntNum(580))
    /\ NumEq(out.value.cells[1].offset_y, IntNum(290))
    /\ \E p \in Occurrences(out.value.content, TextSvgX) :
          NumEq(AttrAfter(out.value.content, p, TextY), IntNum(310))

TextRectOrigin ==
    <<"<", "r", "e", "c", "t", " ", "x", "=", "\"", "0", "\"", " ", "y",
      "=", "\"", "0", "\"", " ", "w", "i", "d", "t", "h", "=", "\"">>

TextFill ==
    <<"\"", " ", "f", "i", "l", "l", "=", "\"">>

TextRootViewBox ==
    <<"v", "i", "e", "w", "B", "o", "x", "=", "\"", "0", " ", "0", " ">>

\* the call had no background
OnContainer == Gridded /\ args.o.background_svg_path = NoPath

\* the rectangle of the container as the caller sizes it
ContainerRect ==
    TextRectOrigin \o str(args.o.container_width.n) \o <<"\"">> \o TextHeight
    \o str(args.o.container_height.n) \o TextFill \o args.o.container_bg_color
    \o <<"\"", "/", ">">>

\* the larger of two numbers
NumMax(a, b) == IF NumLt(a, b) THEN b ELSE a

\* the edges of the cell c: from its corner, as wide as calc_cell_width and
\* as high as calc_cell_height
CellEdges(c) ==
    LET x == out.value.cells[c].cell_x
        y == out.value.cells[c].cell_y
        r == NumAdd(x, out.value.calc_cell_width)
        b == NumAdd(y, out.value.calc_cell_height)
    IN  [left |-> NumMin(x, r), right |-> NumMax(x, r),
         top |-> NumMin(y, b), bottom |-> NumMax(y, b)]

\* two cells have no inner point in common
Apart(a, b) ==
    \/ NumLe(a.right, b.left) \/ NumLe(b.right, a.left)
    \/ NumLe(a.bottom, b.top) \/ NumLe(b.bottom, a.top)

\* C19: without a background the container has the width W and height H of
\* the caller (1920 by 1080 by default), and the document holds one rectangle
\* of W by H in the colour of the container before every tile; the width of
\* a cell is (W - margin*(columns+1)) / columns and its height
\* (H - margin*(rows+1) - label_height*rows) / rows, the labels counted when
\* they are on; two tiles in two columns have one row and two cells side by
\* side, each half of W - 3*margin wide; no two cells overlap and every cell
\* lies in the rectangle of the container.
C19_EvenDivision ==
    OnContainer =>
        /\ out.value.cont_width = args.o.container_width
        /\ out.value.cont_height = args.o.container_height
        /\ \E rects \in {Occurrences(out.value.content, ContainerRect)} :
              /\ Cardinality(rects) = 1
              /\ \A r \in rects :
                    /\ \A p \in Occurrences(out.value.content, LitTileComment) : r < p
                    /\ \A p \in Occurrences(out.value.content, TextSvgX) : r < p
                    /\ \E v \in Occurrences(out.value.content,
                                TextRootViewBox \o str(args.o.container_width.n) \o <<" ">>
                                \o str(args.o.container_height.n) \o <<"\"">>) : v < r
        /\ NumEq(NumMul(out.value.calc_cell_width, IntNum(args.o.columns)),
                 NumSub(args.o.container_width,
                        NumMul(args.o.margin, IntNum(args.o.columns + 1))))
        /\ NumEq(NumMul(out.value.calc_cell_height, IntNum(out.value.rows)),
                 NumSub(NumSub(args.o.container_height,
                               NumMul(args.o.margin, IntNum(out.value.rows + 1))),
                        IF args.o.show_labels
                        THEN NumMul(args.o.label_height, IntNum(out.value.rows))
                        ELSE IntNum(0)))
        /\ (Len(args.tile_paths) = 2 /\ args.o.columns = 2 /\ args.o.rows = None) =>
              /\ out.value.rows = 1
              /\ Len(out.value.cells) = 2
              /\ NumEq(out.value.cells[1].cell_y, out.value.cells[2].cell_y)
              /\ NumEq(out.value.cells[2].cell_x,
                       NumAdd(NumAdd(out.value.cells[1].cell_x, out.value.calc_cell_width),
                              args.o.margin))
              /\ NumEq(NumMul(out.value.calc_cell_width, IntNum(2)),
                       NumSub(args.o.container_width,
                              NumMul(IntNum(3), args.o.margin)))
        /\ \A a \in 1..Len(out.value.cells) :
              /\ NumLe(IntNum(0), CellEdges(a).left)
              /\ NumLe(CellEdges(a).right, args.o.container_width)
              /\ NumLe(IntNum(0), CellEdges(a).top)
              /\ NumLe(CellEdges(a).bottom, args.o.container_height)
              /\ \A b \in 1..Len(out.value.cells) :
                    a # b => Apart(CellEdges(a), CellEdges(b))

\* two tiles of 1920 by 1080 in two columns of the default container: one
\* row, two cells of 930 at 20 and at 970
C19_Witness ==
    /\ OnContainer
    /\ args.tile_paths = <<PathFull, PathFull>>
    /\ args.o.columns = 2 /\ args.o.rows = None /\ ~args.o.show_labels
    /\ args.o.container_width = IntNum(1920)
    /\ out.value.rows = 1
    /\ NumEq(out.value.calc_cell_width, IntNum(930))
    /\ NumEq(out.value.cells[1].cell_x, IntNum(20))
    /\ NumEq(out.value.cells[2].cell_x, IntNum(970))
    /\ Cardinality(Occurrences(out.value.content, ContainerRect)) = 1

------------------------------------------------------------------------------
(* Properties of the grids of ill-formed files (specification SpecShapes). *)

\* C21: for every tile or background whose size is absent or ill-formed (no
\* viewBox, a viewBox that has not four numbers, a viewBox of width or
\* height zero, no width and height), parse_viewbox does not fail and gives
\* the width and height of the file or else (0, 0, 100, 100), and
\* create_grid_composite returns with every tile placed.
C21_StructuralFallback ==
    /\ op = "parse_viewbox" => ~out.raised
    /\ (op = "parse_viewbox" /\ args.path \in DOMAIN ShapeTiles) =>
          \A k \in 1..4 :
                NumEq(out.value[k],
                      IntNum(<<ShapeTiles[args.path].x, ShapeTiles[args.path].y,
                               ShapeTiles[args.path].w, ShapeTiles[args.path].h>>[k]))
    /\ op = "create_grid_composite" =>
          /\ ~out.raised
          /\ Len(out.value.cells) = Len(args.tile_paths)
          /\ \A k \in 1..Len(args.tile_paths) :
                /\ NumEq(out.value.tiles[k].width, IntNum(frags[k].w))
                /\ NumEq(out.value.tiles[k].height, IntNum(frags[k].h))

------------------------------------------------------------------------------
(* Further properties of the rewrite call (specification Spec).            *)

\* the elements with a dotted timing expression: begin="id.click" and
\* end="id.id", whose event name is the text of the identifier
Timed(f) == f.t \in {"begin", "event"}

\* C22: in a begin or end attribute a component id.event whose identifier is
\* in the table has the identifier replaced by the prefixed identifier and
\* the event name as it was, also when the event name is the text of a tabled
\* identifier; a component whose identifier is not in the table is unchanged.
C22_DottedTiming ==
    Rewritten =>
        \A k \in 1..Len(frags) :
            Timed(frags[k]) =>
                IF frags[k].id \in Table
                THEN Contains(out.value.content, Renamed(frags[k]))
                ELSE Contains(out.value.content, Original(frags[k]))

\* the places of an element that hold its identifier as a reference or a
\* declaration: two in values="#id; #id", one in every other element (the
\* event name of id.event is no such place)
Places(f) == IF f.t = "values" THEN 2 ELSE 1

\* the places of the elements of fs whose identifier is in the table
RECURSIVE TabledPlaces(_)
TabledPlaces(fs) ==
    IF fs = <<>> THEN 0
    ELSE (IF fs[1].id \in Table THEN Places(fs[1]) ELSE 0) + TabledPlaces(Tail(fs))

\* C24: references_updated is the number of places, declarations included,
\* where a pass put the prefixed identifier for a tabled one: the text grows
\* by the prefix at each of them and nowhere else; an element whose
\* identifier is not in the table is in the output as it was and adds
\* nothing to the count.
C24_RewriteCount ==
    Rewritten =>
        /\ out.value.stats.references_updated * Len(args.prefix)
               = Len(out.value.content) - Len(args.svg_content)
        /\ \A k \in 1..Len(frags) :
              frags[k].id \notin Table => Contains(out.value.content, Original(frags[k]))
        /\ out.value.stats.references_updated <= TabledPlaces(frags)

\* the declarations of text, each at its own place, declare pairwise
\* distinct identifiers
DeclaresDistinct(text) ==
    \E K \in {{i \in 1..Len(text) : IdPatternAt(text, i).ok}} :
        \A i, j \in K : i # j => IdPatternAt(text, i).id # IdPatternAt(text, j).id

\* C26: when the identifiers the input declares are pairwise distinct, the
\* identifiers the output declares are pairwise distinct, also when the
\* input declares X and, for the prefix p of the call, pX.
C26_DistinctnessKept ==
    (Rewritten /\ DeclaresDistinct(args.svg_content)) =>
        DeclaresDistinct(out.value.content)

\* the elements two passes match: href="url(#id)" (the hybrid pass, then the
\* url pass) and data-href="#id" (the href pass, then the data-* pass)
TwiceMatched(f) == f.t \in {"hybrid", "data_href"}

\* C28: no place is prefixed twice by the ten passes of a call: the output
\* holds no identifier p + p + X for X in the table, and an element two
\* passes match holds the identifier with one prefix and is counted once.
C28_PrefixedOnce ==
    Rewritten =>
        /\ \A x \in Table : ~Contains(out.value.content, args.prefix \o args.prefix \o x)
        /\ \A k \in 1..Len(frags) :
              (TwiceMatched(frags[k]) /\ frags[k].id \in Table) =>
                  /\ Contains(out.value.content, Renamed(frags[k]))
                  /\ out.value.stats.references_updated
                        = 1 + Cardinality({j \in 1..Len(frags) :
                                              /\ frags[j].t \in {"decl", "decl_sq"}
                                              /\ frags[j].id \in Table})

------------------------------------------------------------------------------
(* Properties of the placed compositions (specification SpecPlace).        *)

TextGroup ==
    <<"<", "g", " ">>

TextTransform ==
    <<"t", "r", "a", "n", "s", "f", "o", "r", "m">>

TextTranslate ==
    <<" ", "t", "r", "a", "n", "s", "f", "o", "r", "m", "=", "\"", "t",
      "r", "a", "n", "s", "l", "a", "t", "e", "(">>

\* the k-th position of a set of positions, from 1
Nth(S, k) == CHOOSE p \in S : Cardinality({q \in S : q < p}) = k - 1

\* the prefix of the k-th document of a batch of 26 at most
PrefixOfPlace(k) == <<ascii_lowercase[k], "_">>

\* where tuple k of the call is placed
PlacedAt(k) == IF frags[k].at = <<>> THEN <<0, 0>> ELSE frags[k].at

\* the elements of document k inside its svg element, renamed
RECURSIVE InnerRenamed(_, _)
InnerRenamed(elts, p) ==
    IF elts = <<>> THEN <<>>
    ELSE (IF elts[1].t \in {"svg", "svg_end"} THEN <<>>
          ELSE ElementText(elts[1].t, p \o elts[1].id, elts[1].id))
         \o InnerRenamed(Tail(elts), p)

\* the opening tag of the group at position g of the document
GroupTag(g) == SubSeq(out.value.content, g, RunNotIn(out.value.content, g, {">"}))

\* C23: every document of the call is wrapped in one group, in the order of
\* the call; a tuple of two elements is placed at (0, 0); the group has the
\* transform translate(x, y) exactly when x or y is not 0, and no transform
\* attribute at all at (0, 0); the positions returned hold the (x, y) of
\* every tuple.
C23_FreePlacement ==
    Combined =>
        /\ ~out.raised
        /\ \E groups \in {Occurrences(out.value.content, TextGroup)} :
              /\ Cardinality(groups) = Len(frags)
              /\ \A k \in 1..Len(frags) :
                    \E tag \in {GroupTag(Nth(groups, k))} :
                       /\ IsAt(out.value.content, Nth(groups, k) + Len(tag),
                               <<"\n">> \o InnerRenamed(frags[k].doc, PrefixOfPlace(k)))
                       /\ IF PlacedAt(k) = <<0, 0>>
                          THEN ~Contains(tag, TextTransform)
                          ELSE /\ Cardinality(Occurrences(tag, TextTransform)) = 1
                               /\ Contains(tag, TextTranslate \o str(PlacedAt(k)[1])
                                                \o <<",", " ">> \o str(PlacedAt(k)[2])
                                                \o <<")", "\"">>)
        /\ \A k \in 1..Len(frags) :
              /\ frags[k].name \in DOMAIN out.value.positions
              /\ out.value.positions[frags[k].name] = PlacedAt(k)

------------------------------------------------------------------------------
(* Properties of the invocations side by side (specification SpecWorkers). *)

\* the invocations have been started
Working == op \in {"workers", "joined"}

\* what invocation w returns when it runs alone
Alone(w) == prefix_svg_ids(args[w].svg_content, args[w].prefix, TRUE)

\* C25: whatever the order of the steps of the invocations, every
\* invocation returns what it returns alone, and the join of the composer
\* holds the strings the invocations returned, which it leaves as they are.
C25_Independent ==
    Working =>
        /\ \A w \in Workers : out[w].pc = "done" => out[w].returned = Alone(w)
        /\ op = "joined" =>
              /\ \A w \in Workers : out[w].pc = "done"
              /\ prev.value = Join([w \in Workers |-> Alone(w).content], <<"\n">>)

\* the second invocation has returned a rewritten document with its count
\* while the first is between two of its passes
C25_Witness ==
    /\ op = "workers"
    /\ out[1].pc = "pass" /\ out[1].pass = 5 /\ out[1].ref_count > 0
    /\ out[2].pc = "done"
    /\ out[2].returned.stats.references_updated > 0
    /\ out[2].returned = Alone(2)

\* the identifiers document k of the call declares are pairwise distinct
OwnDistinct(k) == DeclaresDistinct(DocText(frags[k].doc))

\* C27: when the identifiers of each composed document are pairwise
\* distinct, the declarations of the composed document, the renamed
\* identifiers of the documents and the identifiers prefix + root of the
\* wrapper groups, are pairwise distinct, also when a document declares root
\* and when two tuples have the same name.
C27_NoDuplicateIds ==
    (Combined /\ ~out.raised /\ \A k \in 1..Len(frags) : OwnDistinct(k)) =>
        DeclaresDistinct(out.value.content)

------------------------------------------------------------------------------
(* Properties of the grid helpers (specification SpecTiling).              *)

\* the cell of tile i (from 1) as tile_svgs_grid placed it
TilingCell(i) ==
    [left |-> prev.value[i][3], top |-> prev.value[i][4],
     right |-> NumAdd(prev.value[i][3], args.cell_width),
     bottom |-> NumAdd(prev.value[i][4], args.cell_height)]

\* C29: for a count of 1 at least, the position of tile i (from 0) is
\* x = (i % columns) * (cell_width + padding) and
\* y = (i // columns) * (cell_height + padding), the cell at that position
\* lies within the width and height calculate_grid_container_size returns
\* for the same arguments, the cells of distinct tiles do not overlap, and
\* the viewBox returned is '0 0 width height'.
C29_GridHelpers ==
    (op = "grid_sized" /\ args.count >= 1) =>
        /\ Len(prev.value) = args.count
        /\ \A i \in 1..args.count :
              /\ NumEq(prev.value[i][3],
                       NumMul(IntNum((i - 1) % args.columns),
                              NumAdd(args.cell_width, args.padding)))
              /\ NumEq(prev.value[i][4],
                       NumMul(IntNum((i - 1) \div args.columns),
                              NumAdd(args.cell_height, args.padding)))
              /\ NumLe(TilingCell(i).right, out.value.width)
              /\ NumLe(TilingCell(i).bottom, out.value.height)
              /\ \A j \in 1..args.count :
                    i # j => Apart(TilingCell(i), TilingCell(j))
        /\ out.value.viewbox
              = <<"0", " ", "0", " ">> \o str(out.value.width.n) \o <<" ">>
                \o str(out.value.height.n)

------------------------------------------------------------------------------
(* Properties of the grids on a region (specification SpecRegion).         *)

TextViewBoxIs ==
    <<"v", "i", "e", "w", "B", "o", "x", "=", "\"">>

\* the viewBox of the container of the call: the one the background file
\* states, or the origin and the size of the caller
Region ==
    IF args.o.background_svg_path = PathShifted
    THEN [vx |-> 100, vy |-> 50, W |-> 800, H |-> 600]
    ELSE IF args.o.background_svg_path # NoPath
    THEN [vx |-> 0, vy |-> 0, W |-> 800, H |-> 600]
    ELSE [vx |-> 0, vy |-> 0, W |-> args.o.container_width.n,
          H |-> args.o.container_height.n]

\* the edges of the rectangle of the placed tile c
PlacedEdges(c) ==
    LET x == NumAdd(out.value.cells[c].cell_x, out.value.cells[c].offset_x)
        y == NumAdd(out.value.cells[c].cell_y, out.value.cells[c].offset_y)
        r == NumAdd(x, out.value.cells[c].scaled_w)
        b == NumAdd(y, out.value.cells[c].scaled_h)
    IN  [x |-> x, y |-> y,
         left |-> NumMin(x, r), right |-> NumMax(x, r),
         top |-> NumMin(y, b), bottom |-> NumMax(y, b)]

\* C30: the root of the document create_grid_composite returns has the
\* viewBox vx vy W H of the container, and the rectangle of every tile it
\* placed (from cell + offset, scaled_w wide and scaled_h high) lies within
\* [vx, vx + W] by [vy, vy + H], in the generated container (origin 0, 0) and
\* on a background whose viewBox starts elsewhere.
C30_TilesInsideRegion ==
    Gridded =>
        /\ Occurrences(out.value.content,
                       TextViewBoxIs \o str(Region.vx) \o <<" ">> \o str(Region.vy)
                       \o <<" ">> \o str(Region.W) \o <<" ">> \o str(Region.H)
                       \o <<"\"">>) # {}
        /\ \A c \in 1..Len(out.value.cells) :
              /\ Occurrences(out.value.content,
                             TextSvgX \o Fmt2(PlacedEdges(c).x) \o <<"\"", " ", "y", "=", "\"">>
                             \o Fmt2(PlacedEdges(c).y) \o <<"\"">>) # {}
              /\ NumLe(IntNum(Region.vx), PlacedEdges(c).left)
              /\ NumLe(PlacedEdges(c).right, IntNum(Region.vx + Region.W))
              /\ NumLe(IntNum(Region.vy), PlacedEdges(c).top)
              /\ NumLe(PlacedEdges(c).bottom, IntNum(Region.vy + Region.H))

====
